---- MODULE Spec2Model ----
(***************************************************************************)
(* State-machine model of the RAG core of the chatbot backend              *)
(* (src/rag/services.py): the RAGService handle, its retry loops against   *)
(* the Mistral provider, its use of the Pinecone index, and the            *)
(* process-wide singleton accessor get_rag_service.                        *)
(*                                                                         *)
(* Python strings that the code formats or joins are sequences of tokens;  *)
(* fixed message strings are TLA+ strings.  A handler is one action; the   *)
(* caller then observes the returned frame (pc = "ret") and goes back to   *)
(* "idle".  process_query is two forced steps (search, then generate).     *)
(*                                                                         *)
(* The accounts (src/users: registration, email verification, login,       *)
(* password reset) are the specification SpecAuth, and the chat endpoints  *)
(* (src/chat/views.py, src/rag/views.py) the specification SpecChat; each  *)
(* request is one action that leaves its answer in http_response.  Time is *)
(* counted in hours.  The scheduled cleanup of the chat history            *)
(* (src/background_tasks/tasks.py) is SpecHistory, the index-documents     *)
(* endpoint SpecIndexing, the index setup against a provider that may lag  *)
(* SpecSetup, and get_rag_service run by concurrent threads SpecThreads.   *)
(***************************************************************************)
EXTENDS Integers, Sequences, FiniteSets, TLC

\* ------------------------------------------------------------------ bounds
\* the provider answers at most this many consecutive attempts with a 429
MaxRateLimits == 6
\* at most this many RAGService() calls are allowed to raise
MaxCtorFailures == 1
\* tokens generated (email verification and password reset together)
MaxTokens == 3
\* times the clock is advanced
MaxAdvances == 2
\* chat sessions created
MaxSessions == 2
\* rows of the table messages
MaxMessages == 4
MaxDocuments == 2       \* documents in one index-documents request
MaxSeconds == 1         \* seconds the clock of the indexing advances
MaxThreads == 2         \* request threads inside get_rag_service at a time

\* ------------------------------------------------------- program constants
MAX_RETRIES == 5
BASE_DELAY == 2
EmbeddingDim == 1024
TopK == 3
\* the relevance threshold 0.7 and all scores, in hundredths
Threshold == 70
RateLimitStatus == 429
\* getattr(e, 'status_code', None): a missing attribute (None is falsy like 0)
NoStatus == 0

\* ------------------------------------------------------------ input domains
NoneKey == "<None>"
Keys == {NoneKey, "", "key"}
DocIds == {"d1", "d2"}
Queries == {<< >>, <<"q">>}
Contents == {<<"a">>, <<"b">>}
EmptyMeta == << >>
CallerMeta == [source |-> <<"s">>, title |-> <<"old">>]
\* the documents a caller may hand to add_document: title, content, metadata
Documents ==
  {[title |-> <<"T">>, content |-> <<"a">>, metadata |-> EmptyMeta],
   [title |-> <<"T">>, content |-> <<"b">>, metadata |-> EmptyMeta],
   [title |-> << >>, content |-> <<"a">>, metadata |-> CallerMeta],
   [title |-> <<"U">>, content |-> <<"b">>, metadata |-> CallerMeta]}
Scores == {69, 70, 71}
IndexDims == {EmbeddingDim, 768}

\* the calls made while a handle is built, each of which may raise;
\* "RAGService" is the call RAGService() itself raising, outside the two try
\* blocks of __init__: the case the handler of get_rag_service provides for
CtorCalls == {"RAGService", "MistralClient", "Pinecone", "list_indexes",
              "create_index", "describe_index", "delete_index", "Index"}

\* ---------------------------------------------------------- fixed messages
NoServiceMsg == "I apologize, but no AI service is available at the moment."
HighDemandMsg == "I apologize, but I'm having trouble generating a response at the moment due to high demand."
StatusErrorMsg == "I apologize, but I'm having trouble generating a response at the moment."
OtherErrorMsg == "I apologize, but I'm having trouble generating a response at this time."
GeneratedAnswer == "<text generated by the model>"
NoResponse == "<no response>"

VARIABLES
  settings,              \* [MISTRAL_API_KEY, PINECONE_API_KEY]
  rag_service_instance,  \* the module-level singleton (NoneHandle for None)
  pinecone,              \* the provider's index named PINECONE_INDEX_NAME
  pc,                    \* position of the caller: idle, pq_generate, ret
  frame,                 \* the call in progress or just returned
  ctorCalls,             \* number of RAGService() calls made so far
  ctorFailures,          \* number of RAGService() calls that raised
  constructed,           \* number of handles built so far
  firstHandle,           \* the first handle built
  lastAdded,             \* per doc_id, the content of its last successful add
  settling               \* what the provider has accepted and not yet completed

ragVars == <<settings, rag_service_instance, pinecone, pc, frame, ctorCalls,
             ctorFailures, constructed, firstHandle, lastAdded, settling>>

VARIABLES
  users,                   \* the table users, one row per email at most
  email_verifications,     \* the table email_verifications, per user
  password_reset_tokens,   \* the table password_reset_tokens, per user
  issued,                  \* number of tokens generated so far
  now,                     \* timezone.now(), in hours
  advances,                \* number of times the clock was advanced
  http_response            \* the response to the last HTTP request

authVars == <<users, email_verifications, password_reset_tokens, issued, now,
              advances>>

VARIABLES
  sessions,                \* the table chat_sessions
  last_session_id,         \* the last id the table chat_sessions gave out
  messages                 \* the table messages, in the order of creation

chatVars == <<sessions, last_session_id, messages>>

VARIABLES
  task_result,             \* what the last run of cleanup_old_chat_history returned
  unix_time,               \* int(time.time()), counted from the first request
  lag,                     \* the provider takes longer over a deletion or a
                           \* creation than the setup waits for it
  threads                  \* per request thread inside get_rag_service: its
                           \* position, the handle it built, what it returned

opsVars == <<task_result, unix_time, lag, threads>>

vars == <<ragVars, authVars, chatVars, opsVars, http_response>>

\* ------------------------------------------------------------------ values
NoneHandle == [id |-> 0, mistral_available |-> FALSE, pinecone_available |-> FALSE]
NoContent == <<"<never added>">>

\* a test for None only, which takes the empty string for a credential
Truthy_not_none(s) == s # NoneKey

\* the truth value of a setting: None and the empty string are false
Truthy(s) == s # NoneKey /\ s # ""

Min(a, b) == IF a < b THEN a ELSE b

\* an update that keeps the value of a key the dictionary already has
DictUpdate_keep(m, upd) ==
  [k \in (DOMAIN m) \cup (DOMAIN upd) |-> IF k \in DOMAIN m THEN m[k] ELSE upd[k]]

\* dict.update: the keys of upd overwrite those of m
DictUpdate(m, upd) ==
  [k \in (DOMAIN m) \cup (DOMAIN upd) |-> IF k \in DOMAIN upd THEN upd[k] ELSE m[k]]

\* dict.get(key, default)
DictGet(m, key, default) == IF key \in DOMAIN m THEN m[key] ELSE default

\* the vector the provider computes for a text: one entry standing for the
\* EmbeddingDim floats, never empty
Vector(text) == <<text>>

\* ------------------------------------------------------ provider outcomes
OkOutcome == [kind |-> "ok", status_code |-> NoStatus, code |-> NoStatus]
StatusException(sc, c) == [kind |-> "status", status_code |-> sc, code |-> c]
OtherException == [kind |-> "error", status_code |-> NoStatus, code |-> NoStatus]

\* a rate-limit answer: a MistralAPIStatusException carrying 429, in the
\* attribute status_code on odd attempts and in the attribute code on even ones
RateLimitAt(attempt) ==
  IF attempt % 2 = 1 THEN StatusException(RateLimitStatus, NoStatus)
                     ELSE StatusException(NoStatus, RateLimitStatus)
TerminalOutcomes == {OkOutcome, StatusException(500, NoStatus), OtherException}

\* what the provider will answer to the successive attempts of one call:
\* a 429 to the first `rate` attempts, then `last` to every later one
Scripts == [rate : 0..MaxRateLimits, last : TerminalOutcomes]
OutcomeAt(script, attempt) ==
  IF attempt <= script.rate THEN RateLimitAt(attempt) ELSE script.last

\* what the caller of the provider saw: the answer to the last attempt made
\* ("none" without an attempt), and whether every attempt got a 429
LastAnswer(script, attempts) ==
  IF attempts = 0 THEN "none"
  ELSE IF attempts <= script.rate THEN "limit"
  ELSE script.last.kind

\* how many of the attempts made were answered by a 429
Limited(script, attempts) == Min(attempts, script.rate)

\* getattr(e, 'status_code', None) or getattr(e, 'code', None)
StatusOf(e) == IF e.status_code # NoStatus THEN e.status_code ELSE e.code


\* ------------------------------------------------- RAGService.get_embedding
\* retries < self.MAX_RETRIES, the test of both while loops and of the retry
RetriesLeft(retries) == retries < MAX_RETRIES

\* a backoff that grows by a constant step instead of doubling
Backoff_linear(delay) == delay + BASE_DELAY

\* delay *= 2
Backoff(delay) == delay * 2

\* a test that takes every status exception for a rate limit
IsRateLimit_any_status(e) == e.kind = "status"

\* a test that reads the attribute status_code only
IsRateLimit_status_code_only(e) == e.status_code = RateLimitStatus

\* status_code == 429
IsRateLimit(e) == StatusOf(e) = RateLimitStatus

\* what one call did: the value returned (is_none: None was returned, raised:
\* an exception left the call instead), the provider attempts, the sleeps
EmbeddingReturn(value, none, attempts, sleeps) ==
  [value |-> value, is_none |-> none, raised |-> FALSE,
   attempts |-> attempts, sleeps |-> sleeps]

RECURSIVE EmbeddingLoop(_, _, _, _, _, _)
EmbeddingLoop(text, script, retries, delay, attempts, sleeps) ==
  IF ~RetriesLeft(retries)
  THEN EmbeddingReturn(<< >>, TRUE, attempts, sleeps)   \* falls off the loop
  ELSE LET e == OutcomeAt(script, attempts + 1) IN
       IF e.kind = "ok"
       THEN EmbeddingReturn(Vector(text), FALSE, attempts + 1, sleeps)
       ELSE IF e.kind = "status"
       THEN IF IsRateLimit(e)
            THEN IF RetriesLeft(retries + 1)
                 THEN EmbeddingLoop(text, script, retries + 1, Backoff(delay),
                                    attempts + 1, Append(sleeps, delay))
                 ELSE EmbeddingReturn(<< >>, FALSE, attempts + 1, sleeps)
            ELSE EmbeddingReturn(<< >>, FALSE, attempts + 1, sleeps)
       ELSE EmbeddingReturn(<< >>, FALSE, attempts + 1, sleeps)

\* a get_embedding that does not look at mistral_available
get_embedding_unguarded(self, text, script) ==
  EmbeddingLoop(text, script, 0, BASE_DELAY, 0, << >>)

get_embedding(self, text, script) ==
  IF ~self.mistral_available
  THEN EmbeddingReturn(<< >>, FALSE, 0, << >>)
  ELSE EmbeddingLoop(text, script, 0, BASE_DELAY, 0, << >>)

\* --------------------------------------------- RAGService.generate_response
\* the system message of the prompt, the same in every call
SystemMessage ==
  <<"You are a helpful AI assistant. ",
    "Use the provided context to answer questions accurately.">>

\* the user message of the prompt, built from context and query
Prompt(query, context) ==
  <<"Context: ">> \o context \o <<"\n\nQuestion: ">> \o query
    \o <<"\n\nPlease provide a helpful and accurate response based on the given context.">>

ChatReturn(response, none, attempts, sleeps, prompt) ==
  [response |-> response, is_none |-> none, raised |-> FALSE,
   attempts |-> attempts, sleeps |-> sleeps, prompt |-> prompt]

RECURSIVE ChatLoop(_, _, _, _, _, _, _)
ChatLoop(query, context, script, retries, delay, attempts, sleeps) ==
  LET sent == Prompt(query, context) IN
  IF ~RetriesLeft(retries)
  THEN ChatReturn(NoResponse, TRUE, attempts, sleeps, sent)     \* falls off the loop
  ELSE LET e == OutcomeAt(script, attempts + 1) IN
       IF e.kind = "ok"
       THEN ChatReturn(GeneratedAnswer, FALSE, attempts + 1, sleeps, sent)
       ELSE IF e.kind = "status"
       THEN IF IsRateLimit(e)
            THEN IF RetriesLeft(retries + 1)
                 THEN ChatLoop(query, context, script, retries + 1, Backoff(delay),
                               attempts + 1, Append(sleeps, delay))
                 ELSE ChatReturn(HighDemandMsg, FALSE, attempts + 1, sleeps, sent)
            ELSE ChatReturn(StatusErrorMsg, FALSE, attempts + 1, sleeps, sent)
       ELSE ChatReturn(OtherErrorMsg, FALSE, attempts + 1, sleeps, sent)

\* a generate_response whose retry counter and delay go on from where the
\* embedding of the same request left them
generate_response_shared_budget(self, query, context, script) ==
  IF ~self.mistral_available
  THEN ChatReturn(NoServiceMsg, FALSE, 0, << >>, << >>)
  ELSE ChatLoop(query, context, script, frame.embed_limited,
                BASE_DELAY * 2^(frame.embed_limited), 0, << >>)

\* a generate_response that gives up after the first answer of the provider
generate_response_no_retry(self, query, context, script) ==
  IF ~self.mistral_available
  THEN ChatReturn(NoServiceMsg, FALSE, 0, << >>, << >>)
  ELSE ChatLoop(query, context, script, MAX_RETRIES - 1, BASE_DELAY, 0, << >>)

generate_response(self, query, context, script) ==
  IF ~self.mistral_available
  THEN ChatReturn(NoServiceMsg, FALSE, 0, << >>, << >>)
  ELSE ChatLoop(query, context, script, 0, BASE_DELAY, 0, << >>)

\* ------------------------------------------------------ the Pinecone index
\* an insert that keeps what is stored under the same id
Upsert_insert(vectors, triple) == vectors \cup {triple}

\* index.upsert(vectors=[(id, values, metadata)]): insert or overwrite by id
Upsert(vectors, triple) == {v \in vectors : v.id # triple.id} \cup {triple}

\* the provider accepts vectors only for an existing index of their dimension
IndexUsable(p) == p.exists /\ p.dimension = EmbeddingDim

\* index.query(vector, top_k, include_metadata=True): up to top_k stored
\* vectors, each once, in the provider's order, with the provider's scores
Matches(p, top_k) ==
  UNION { { m \in [1..n -> [id : {v.id : v \in p.vectors}, score : Scores]] :
              \A i, j \in 1..n : i # j => m[i].id # m[j].id }
          : n \in 0..Min(top_k, Cardinality(p.vectors)) }

MetadataOf(p, id) == (CHOOSE v \in p.vectors : v.id = id).metadata

\* -------------------------------------------------- RAGService.add_document
\* metadata = metadata or {}; metadata.update({title, content, doc_id})
DocMetadata(doc_id, title, content, metadata) ==
  DictUpdate(metadata, [title |-> title, content |-> content, doc_id |-> doc_id])

\* the triple handed to index.upsert
DocTriple(doc_id, embedding, metadata) ==
  [id |-> doc_id, values |-> embedding, metadata |-> metadata]

\* an add_document that hands the embedding to the index without testing it
add_document_unchecked(self, p, doc_id, title, content, metadata, script, upsert_ok) ==
  LET emb == get_embedding(self, content, script)
      none == [ok |-> FALSE, raised |-> FALSE, vectors |-> p.vectors, upserts |-> 0,
               attempts |-> 0, sleeps |-> << >>]
      tried == [none EXCEPT !.attempts = emb.attempts, !.sleeps = emb.sleeps]
  IN
  IF ~self.pinecone_available THEN none
  ELSE IF emb.raised THEN [tried EXCEPT !.raised = TRUE]
  ELSE IF upsert_ok /\ IndexUsable(p)
  THEN [tried EXCEPT !.ok = TRUE, !.upserts = 1,
          !.vectors = Upsert(p.vectors,
                        DocTriple(doc_id, emb.value,
                                  DocMetadata(doc_id, title, content, metadata)))]
  ELSE [tried EXCEPT !.upserts = 1]

\* returns the result, the index contents and the calls made;
\* upsert_ok: whether the provider accepts the upsert
add_document(self, p, doc_id, title, content, metadata, script, upsert_ok) ==
  LET emb == get_embedding(self, content, script)
      none == [ok |-> FALSE, raised |-> FALSE, vectors |-> p.vectors, upserts |-> 0,
               attempts |-> 0, sleeps |-> << >>]
      tried == [none EXCEPT !.attempts = emb.attempts, !.sleeps = emb.sleeps]
  IN
  IF ~self.pinecone_available THEN none
  ELSE IF emb.raised THEN [tried EXCEPT !.raised = TRUE]
  ELSE IF emb.value = << >> THEN tried
  ELSE IF upsert_ok /\ IndexUsable(p)
  THEN [tried EXCEPT !.ok = TRUE, !.upserts = 1,
          !.vectors = Upsert(p.vectors,
                        DocTriple(doc_id, emb.value,
                                  DocMetadata(doc_id, title, content, metadata)))]
  ELSE [tried EXCEPT !.upserts = 1]      \* the except branch

\* ---------------------------------------------- RAGService.search_documents
\* one formatted result of the search
SearchResult(p, match) ==
  LET md == MetadataOf(p, match.id) IN
  [id |-> match.id, score |-> match.score,
   title |-> DictGet(md, "title", << >>),
   content |-> DictGet(md, "content", << >>),
   metadata |-> md]

\* a search that does not look at pinecone_available
search_documents_unguarded(self, p, query, script, query_ok, matches) ==
  LET emb == get_embedding(self, query, script)
      none == [documents |-> << >>, raised |-> FALSE, queries |-> 0,
               attempts |-> 0, sleeps |-> << >>]
      tried == [none EXCEPT !.attempts = emb.attempts, !.sleeps = emb.sleeps]
  IN
  IF emb.raised THEN [tried EXCEPT !.raised = TRUE]
  ELSE IF emb.value = << >> THEN tried
  ELSE IF ~(query_ok /\ IndexUsable(p))
  THEN [tried EXCEPT !.queries = 1]
  ELSE [tried EXCEPT !.queries = 1,
          !.documents = [i \in 1..Len(matches) |-> SearchResult(p, matches[i])]]

\* a search whose index query and formatting are outside the try block
search_documents_uncaught(self, p, query, script, query_ok, matches) ==
  LET emb == get_embedding(self, query, script)
      none == [documents |-> << >>, raised |-> FALSE, queries |-> 0,
               attempts |-> 0, sleeps |-> << >>]
      tried == [none EXCEPT !.attempts = emb.attempts, !.sleeps = emb.sleeps]
  IN
  IF ~self.pinecone_available THEN none
  ELSE IF emb.raised THEN [tried EXCEPT !.raised = TRUE]
  ELSE IF emb.value = << >> THEN tried
  ELSE IF ~(query_ok /\ IndexUsable(p))
  THEN [tried EXCEPT !.queries = 1, !.raised = TRUE]
  ELSE [tried EXCEPT !.queries = 1,
          !.documents = [i \in 1..Len(matches) |-> SearchResult(p, matches[i])]]

\* query_ok: whether index.query answers; matches: its answer
search_documents(self, p, query, script, query_ok, matches) ==
  LET emb == get_embedding(self, query, script)
      none == [documents |-> << >>, raised |-> FALSE, queries |-> 0,
               attempts |-> 0, sleeps |-> << >>]
      tried == [none EXCEPT !.attempts = emb.attempts, !.sleeps = emb.sleeps]
  IN
  IF ~self.pinecone_available THEN none
  ELSE IF emb.raised THEN [tried EXCEPT !.raised = TRUE]
  ELSE IF emb.value = << >> THEN tried
  ELSE IF ~(query_ok /\ IndexUsable(p))
  THEN [tried EXCEPT !.queries = 1]      \* the except branch
  ELSE [tried EXCEPT !.queries = 1,
          !.documents = [i \in 1..Len(matches) |-> SearchResult(p, matches[i])]]

\* ------------------------------------------------- RAGService.process_query
\* f"Document: {doc['title']}\nContent: {doc['content']}"
ContextPart(doc) == <<"Document: ">> \o doc.title \o <<"\nContent: ">> \o doc.content

\* a threshold that lets the score 0.7 itself through
Relevant_inclusive(doc) == doc.score >= Threshold

\* doc['score'] > 0.7
Relevant(doc) == doc.score > Threshold

\* "\n\n".join(parts)
RECURSIVE Join(_)
Join(parts) ==
  IF parts = << >> THEN << >>
  ELSE IF Len(parts) = 1 THEN parts[1]
  ELSE parts[1] \o <<"\n\n">> \o Join(Tail(parts))

ContextParts(relevant_docs) ==
  LET kept == SelectSeq(relevant_docs, Relevant)
  IN [i \in 1..Len(kept) |-> ContextPart(kept[i])]

\* step 2 of process_query
Context(relevant_docs) ==
  IF relevant_docs # << >> THEN Join(ContextParts(relevant_docs)) ELSE << >>

\* bool(context)
Bool(s) == s # << >>


\* ------------------------------------------------------ RAGService.__init__
FreshIndex == [exists |-> TRUE, dimension |-> EmbeddingDim, vectors |-> {}]
NoIndex == [exists |-> FALSE, dimension |-> 0, vectors |-> {}]

\* what the index setup did: the index afterwards, whether an exception
\* reached the outer handler, the create_index and delete_index calls issued
SetupReturn(p, raised, creates, deletes) ==
  [pinecone |-> p, raised |-> raised, creates |-> creates, deletes |-> deletes]

\* the index setup inside the Pinecone try block, lines 55-78; faults are the
\* calls that raise; `raised` is an exception reaching the outer handler
IndexSetup(p, faults) ==
  IF "list_indexes" \in faults THEN SetupReturn(p, TRUE, 0, 0)
  ELSE IF ~p.exists
  THEN IF "create_index" \in faults
       THEN SetupReturn(p, TRUE, 1, 0)
       ELSE SetupReturn(FreshIndex, FALSE, 1, 0)
  ELSE \* the inner try: its handler swallows every exception
       IF "describe_index" \in faults THEN SetupReturn(p, FALSE, 0, 0)
       ELSE IF p.dimension # EmbeddingDim
       THEN IF "delete_index" \in faults THEN SetupReturn(p, FALSE, 0, 1)
            ELSE IF "create_index" \in faults
                 THEN SetupReturn(NoIndex, FALSE, 1, 1)
                 ELSE SetupReturn(FreshIndex, FALSE, 1, 1)
       ELSE SetupReturn(p, FALSE, 0, 0)

\* RAGService(): the two flags, the index afterwards, and whether the call
\* itself raised instead of returning a handle
RAGService(p, faults) ==
  LET mistral == "MistralClient" \notin faults
      setup == IndexSetup(p, faults)
      none == [raised |-> FALSE, mistral_available |-> mistral,
               pinecone_available |-> FALSE, pinecone |-> p,
               creates |-> 0, deletes |-> 0]
      done == [none EXCEPT !.pinecone = setup.pinecone, !.creates = setup.creates,
                           !.deletes = setup.deletes]
  IN
  IF "RAGService" \in faults
  THEN [none EXCEPT !.raised = TRUE, !.mistral_available = FALSE]
  ELSE IF "Pinecone" \in faults THEN none
  ELSE IF setup.raised \/ "Index" \in faults THEN done
  ELSE [done EXCEPT !.pinecone_available = TRUE]

\* ------------------------------------------------------------------- frames
EmptyFrame ==
  [op |-> "none", handle |-> NoneHandle, raised |-> FALSE, is_none |-> FALSE,
   text |-> << >>, doc_id |-> "", title |-> << >>, metadata |-> EmptyMeta,
   embedding |-> << >>, ok |-> FALSE, documents |-> << >>,
   search_results |-> << >>,
   response |-> NoResponse, context_used |-> FALSE, context |-> << >>,
   prompt |-> << >>,
   embed_answer |-> "none", chat_answer |-> "none",
   embed_attempts |-> 0, embed_sleeps |-> << >>,
   chat_attempts |-> 0, chat_sleeps |-> << >>,
   queries |-> 0, upserts |-> 0, generate_calls |-> 0,
   query_answer |-> "none", previous |-> << >>,
   ctor_called |-> FALSE, ctor_raised |-> FALSE, faults |-> {},
   embed_limited |-> 0, chat_limited |-> 0,
   index_before |-> NoIndex, creates |-> 0, deletes |-> 0]

\* ================================================================ accounts
\* status codes of rest_framework.status
HTTP_200_OK == 200
HTTP_201_CREATED == 201
HTTP_400_BAD_REQUEST == 400
HTTP_404_NOT_FOUND == 404

\* lifetimes of the tokens, in hours
VERIFICATION_HOURS == 24
RESET_HOURS == 1

Emails == {"a@example.com", "b@example.com"}
Passwords == {"pw1", "pw2"}
\* the hours by which the clock is advanced between two requests
Durations == {1, VERIFICATION_HOURS}
\* the token strings a request can present: 0 is a request without a token
Tokens == 0..MaxTokens

NoEmail == ""
NoUser == [exists |-> FALSE, password |-> "", is_active |-> FALSE,
           is_verified |-> FALSE]
NoToken == [token |-> 0, expires_at |-> 0]

PasswordsDontMatchMsg == "Passwords don't match"
EmailTakenMsg == "user with this email already exists."
InvalidCredentialsMsg == "Invalid credentials"
NotVerifiedMsg == "Account not verified. Please check your email for verification link."
TokenRequiredMsg == "Verification token is required"
TokenExpiredMsg == "Verification token has expired"
InvalidTokenMsg == "Invalid verification token"
InvalidResetMsg == "Invalid or expired password reset token."

\* a response: the request it answers (its handler and the email, password,
\* token, session_id and content it carried; for a chat request email is
\* request.user), the status, the error message, whether it carries an
\* access and a refresh token, the user and the session it is about
Response(op, status, error) ==
  [op |-> op, status |-> status, error |-> error, tokens |-> FALSE,
   email |-> NoEmail, password |-> "", token |-> 0, user |-> NoEmail,
   session_id |-> 0, content |-> << >>, session |-> 0,
   documents |-> << >>, indexed_count |-> 0]
NoRequest == Response("none", 0, "")

\* User.objects.create_user(**validated_data): is_active defaults to True
\* (AbstractUser), is_verified to False
create_user(password) ==
  [exists |-> TRUE, password |-> password, is_active |-> TRUE, is_verified |-> FALSE]

\* django.contrib.auth.authenticate with the ModelBackend: the user of that
\* email if the password is theirs and the user is active, else None
authenticate(table, email, password) ==
  IF table[email].exists /\ table[email].password = password /\ table[email].is_active
  THEN email ELSE NoEmail

\* a test that takes every user for verified
NotVerified_never(user) == FALSE

\* not user.is_verified
NotVerified(user) == ~user.is_verified

\* UserLoginSerializer.validate: the user, or the error of the ValidationError
UserLoginSerializer_validate(table, email, password) ==
  LET user == authenticate(table, email, password) IN
  IF user = NoEmail THEN [valid |-> FALSE, error |-> InvalidCredentialsMsg, user |-> NoEmail]
  ELSE IF NotVerified(table[user])
  THEN [valid |-> FALSE, error |-> NotVerifiedMsg, user |-> NoEmail]
  ELSE [valid |-> TRUE, error |-> "", user |-> user]

\* LoginView.post
LoginView_post(table, email, password) ==
  LET checked == UserLoginSerializer_validate(table, email, password)
      answer(status, error) ==
        [Response("login", status, error) EXCEPT !.email = email, !.password = password]
  IN
  IF ~checked.valid THEN answer(HTTP_400_BAD_REQUEST, checked.error)
  ELSE IF NotVerified(table[checked.user])
  THEN answer(HTTP_400_BAD_REQUEST, NotVerifiedMsg)
  ELSE [answer(HTTP_200_OK, "") EXCEPT !.tokens = TRUE, !.user = checked.user]

\* a token that never expires
is_expired_never(row, t) == FALSE

\* is_expired(): timezone.now() > self.expires_at
is_expired(row, t) == t > row.expires_at

\* objects.get(token=token): the user whose row holds the token, NoEmail for
\* DoesNotExist
OwnerOf(table, token) ==
  IF \E e \in Emails : table[e] # NoToken /\ table[e].token = token
  THEN CHOOSE e \in Emails : table[e] # NoToken /\ table[e].token = token
  ELSE NoEmail

\* no run of cleanup_old_chat_history yet
NoTaskResult == [messages_deleted |-> 0, sessions_deleted |-> 0]

ChatInit ==
  /\ sessions = {}
  /\ last_session_id = 0
  /\ messages = << >>
  /\ task_result = NoTaskResult
  /\ unix_time = 0
  /\ threads = [t \in 1..MaxThreads |->
                  [pc |-> "start", built |-> NoneHandle, returned |-> NoneHandle]]

AuthInit ==
  /\ users = [e \in Emails |-> NoUser]
  /\ email_verifications = [e \in Emails |-> NoToken]
  /\ password_reset_tokens = [e \in Emails |-> NoToken]
  /\ issued = 0
  /\ now = 0
  /\ advances = 0

\* ------------------------------------------------------------------- state
LegacyVector == [id |-> "legacy", values |-> <<"old">>,
                 metadata |-> [source |-> <<"import">>]]

\* a document indexed by an earlier run of the program
StoredDoc == [doc_id |-> "d1", title |-> <<"t">>, content |-> <<"a">>]
StoredVector ==
  DocTriple(StoredDoc.doc_id, Vector(StoredDoc.content),
            DocMetadata(StoredDoc.doc_id, StoredDoc.title, StoredDoc.content,
                        EmptyMeta))
StoredIndex == [FreshIndex EXCEPT !.vectors = {StoredVector}]

InitialIndexes ==
  {NoIndex, FreshIndex, StoredIndex}
  \cup {[exists |-> TRUE, dimension |-> d, vectors |-> {LegacyVector}] :
          d \in IndexDims \ {EmbeddingDim}}

Init ==
  /\ settings \in [MISTRAL_API_KEY : Keys, PINECONE_API_KEY : Keys]
  /\ rag_service_instance = NoneHandle
  /\ pinecone \in InitialIndexes
  /\ pc = "idle"
  /\ frame = EmptyFrame
  /\ ctorCalls = 0
  /\ ctorFailures = 0
  /\ constructed = 0
  /\ firstHandle = NoneHandle
  /\ settling = "none"
  /\ lag = FALSE
  /\ lastAdded = [d \in DocIds |->
                    IF \E v \in pinecone.vectors : v.id = d
                    THEN DictGet(MetadataOf(pinecone, d), "content", NoContent)
                    ELSE NoContent]
  /\ AuthInit
  /\ ChatInit
  /\ http_response = NoRequest

\* -------------------------------------------------------- get_rag_service
\* an accessor that builds a handle on every call
get_rag_service_rebuild(instance, conf, p, faults, next_id) ==
  LET built == RAGService(p, faults) IN
  IF Truthy(conf.MISTRAL_API_KEY) /\ Truthy(conf.PINECONE_API_KEY)
  THEN IF built.raised
       THEN [instance |-> NoneHandle, pinecone |-> built.pinecone,
             called |-> TRUE, raised |-> TRUE]
       ELSE [instance |-> [id |-> next_id,
                           mistral_available |-> built.mistral_available,
                           pinecone_available |-> built.pinecone_available],
             pinecone |-> built.pinecone, called |-> TRUE, raised |-> FALSE]
  ELSE [instance |-> NoneHandle, pinecone |-> p, called |-> FALSE, raised |-> FALSE]

\* the new value of the singleton and what the call did
get_rag_service(instance, conf, p, faults, next_id) ==
  LET built == RAGService(p, faults)
      same == [instance |-> instance, pinecone |-> p, called |-> FALSE, raised |-> FALSE]
  IN
  IF instance # NoneHandle THEN same
  ELSE IF Truthy(conf.MISTRAL_API_KEY) /\ Truthy(conf.PINECONE_API_KEY)
  THEN IF built.raised
       THEN [instance |-> NoneHandle, pinecone |-> built.pinecone,
             called |-> TRUE, raised |-> TRUE]
       ELSE [instance |-> [id |-> next_id,
                           mistral_available |-> built.mistral_available,
                           pinecone_available |-> built.pinecone_available],
             pinecone |-> built.pinecone, called |-> TRUE, raised |-> FALSE]
  ELSE [same EXCEPT !.instance = NoneHandle]

\* the create_index and delete_index calls of the RAGService() that
\* get_rag_service makes, none when it makes no such call
SetupCalls(instance, conf, p, faults) ==
  LET built == RAGService(p, faults) IN
  IF get_rag_service(instance, conf, p, faults, 0).called
  THEN [creates |-> built.creates, deletes |-> built.deletes]
  ELSE [creates |-> 0, deletes |-> 0]

\* the delete_index and create_index calls the provider accepted during the
\* setup: the deletion and the creation themselves go on at the provider after
\* the call has returned, and the setup does not ask for their state; the
\* time.sleep(2) after each call of the recreation covers them unless the
\* provider lags
Pending(calls, faults) ==
  LET deleted == calls.deletes = 1 /\ "delete_index" \notin faults
      created == calls.creates = 1 /\ "create_index" \notin faults
  IN IF deleted /\ created THEN "recreate"
     ELSE IF deleted THEN "delete"
     ELSE IF created THEN "create"
     ELSE "none"

\* the faults worth drawing: none when no handle is going to be built
FaultSets ==
  IF rag_service_instance = NoneHandle
     /\ Truthy(settings.MISTRAL_API_KEY) /\ Truthy(settings.PINECONE_API_KEY)
  THEN {f \in SUBSET CtorCalls : "RAGService" \in f => ctorFailures < MaxCtorFailures}
  ELSE {{}}

GetRagService ==
  /\ pc = "idle"
  /\ \E faults \in FaultSets :
       LET r == get_rag_service(rag_service_instance, settings, pinecone, faults,
                                constructed + 1)
           built == r.called /\ ~r.raised
           calls == SetupCalls(rag_service_instance, settings, pinecone, faults)
       IN
       /\ rag_service_instance' = r.instance
       /\ pinecone' = r.pinecone
       /\ ctorCalls' = IF r.called THEN ctorCalls + 1 ELSE ctorCalls
       /\ ctorFailures' = IF r.raised THEN ctorFailures + 1 ELSE ctorFailures
       /\ constructed' = IF built THEN constructed + 1 ELSE constructed
       /\ firstHandle' = IF built /\ constructed = 0 THEN r.instance ELSE firstHandle
       /\ settling' = IF lag /\ Pending(calls, faults) # "none"
                      THEN Pending(calls, faults) ELSE settling
       /\ frame' = [EmptyFrame EXCEPT !.op = "get_rag_service", !.handle = r.instance,
                      !.ctor_called = r.called, !.ctor_raised = r.raised,
                      !.faults = faults, !.index_before = pinecone,
                      !.creates = calls.creates, !.deletes = calls.deletes]
  /\ pc' = "ret"
  /\ UNCHANGED <<settings, lastAdded, authVars, chatVars, opsVars, http_response>>

\* the caller has read the result
Return ==
  /\ pc = "ret"
  /\ pc' = "idle"
  /\ frame' = EmptyFrame
  /\ UNCHANGED <<settings, rag_service_instance, pinecone, ctorCalls, ctorFailures,
                 constructed, firstHandle, lastAdded, settling, authVars, chatVars,
                 opsVars, http_response>>

\* the provider completes what it had accepted
Settle ==
  /\ settling # "none"
  /\ settling' = "none"
  /\ UNCHANGED <<settings, rag_service_instance, pinecone, pc, frame, ctorCalls,
                 ctorFailures, constructed, firstHandle, lastAdded, authVars,
                 chatVars, opsVars, http_response>>


\* ------------------------------------------------- calls on the handle
HandleReady == pc = "idle" /\ rag_service_instance # NoneHandle

Unchanged == UNCHANGED <<settings, rag_service_instance, ctorCalls, ctorFailures,
                         constructed, firstHandle, settling, authVars, chatVars,
                         opsVars, http_response>>

\* the provider's possible answers to index.query: it raises, or it returns
\* matches; one dummy answer when the call is not going to be made
QueryAnswers(asked) ==
  IF asked
  THEN {[ok |-> FALSE, matches |-> << >>]}
       \cup {[ok |-> TRUE, matches |-> m] : m \in Matches(pinecone, TopK)}
  ELSE {[ok |-> FALSE, matches |-> << >>]}

GetEmbedding ==
  /\ HandleReady
  /\ \E text \in Queries \cup Contents, script \in Scripts :
       LET r == get_embedding(rag_service_instance, text, script) IN
       frame' = [EmptyFrame EXCEPT !.op = "get_embedding", !.text = text,
                   !.embed_answer = LastAnswer(script, r.attempts),
                   !.embed_limited = Limited(script, r.attempts),
                   !.embedding = r.value, !.is_none = r.is_none,
                   !.raised = r.raised,
                   !.embed_attempts = r.attempts, !.embed_sleeps = r.sleeps]
  /\ pc' = "ret"
  /\ Unchanged
  /\ UNCHANGED <<pinecone, lastAdded>>

GenerateResponse ==
  /\ HandleReady
  /\ \E query \in Queries, context \in {<< >>, <<"ctx">>}, script \in Scripts :
       LET r == generate_response(rag_service_instance, query, context, script) IN
       frame' = [EmptyFrame EXCEPT !.op = "generate_response", !.text = query,
                   !.context = context,
                   !.chat_answer = LastAnswer(script, r.attempts),
                   !.chat_limited = Limited(script, r.attempts),
                   !.response = r.response, !.is_none = r.is_none,
                   !.raised = r.raised,
                   !.prompt = IF r.attempts > 0 THEN r.prompt ELSE << >>,
                   !.chat_attempts = r.attempts, !.chat_sleeps = r.sleeps,
                   !.generate_calls = 1]
  /\ pc' = "ret"
  /\ Unchanged
  /\ UNCHANGED <<pinecone, lastAdded>>

AddDocument ==
  /\ HandleReady
  /\ \E doc_id \in DocIds, doc \in Documents, script \in Scripts :
     \E upsert_ok \in IF get_embedding(rag_service_instance, doc.content, script).value # << >>
                      THEN BOOLEAN ELSE {FALSE} :
       LET r == add_document(rag_service_instance, pinecone, doc_id, doc.title,
                             doc.content, doc.metadata, script, upsert_ok)
       IN
       /\ pinecone' = [pinecone EXCEPT !.vectors = r.vectors]
       /\ lastAdded' = IF r.ok THEN [lastAdded EXCEPT ![doc_id] = doc.content]
                               ELSE lastAdded
       /\ frame' = [EmptyFrame EXCEPT !.op = "add_document", !.doc_id = doc_id,
                      !.title = doc.title, !.text = doc.content,
                      !.metadata = doc.metadata,
                      !.embed_answer = LastAnswer(script, r.attempts),
                      !.embed_limited = Limited(script, r.attempts),
                      !.ok = r.ok, !.raised = r.raised,
                      !.previous = lastAdded[doc_id],
                      !.embed_attempts = r.attempts, !.embed_sleeps = r.sleeps,
                      !.upserts = r.upserts]
  /\ pc' = "ret"
  /\ Unchanged

SearchDocuments ==
  /\ HandleReady
  /\ \E query \in Queries, script \in Scripts :
     \E answer \in QueryAnswers(get_embedding(rag_service_instance, query, script).value # << >>) :
       LET r == search_documents(rag_service_instance, pinecone, query, script,
                                 answer.ok, answer.matches)
       IN
       frame' = [EmptyFrame EXCEPT !.op = "search_documents", !.text = query,
                   !.embed_answer = LastAnswer(script, r.attempts),
                   !.embed_limited = Limited(script, r.attempts),
                   !.documents = r.documents, !.raised = r.raised,
                   !.query_answer = IF r.queries = 0 THEN "none"
                                    ELSE IF answer.ok /\ IndexUsable(pinecone)
                                    THEN "ok" ELSE "error",
                   !.embed_attempts = r.attempts, !.embed_sleeps = r.sleeps,
                   !.queries = r.queries]
  /\ pc' = "ret"
  /\ Unchanged
  /\ UNCHANGED <<pinecone, lastAdded>>

\* the dictionary process_query returns
RAGResult(response, relevant_docs, context) ==
  [response |-> response, relevant_documents |-> relevant_docs,
   context_used |-> Bool(context)]

\* step 1 of process_query: relevant_docs = self.search_documents(query)
ProcessQuerySearch ==
  /\ HandleReady
  /\ \E query \in Queries, script \in Scripts :
     \E answer \in QueryAnswers(get_embedding(rag_service_instance, query, script).value # << >>) :
       LET r == search_documents(rag_service_instance, pinecone, query, script,
                                 answer.ok, answer.matches)
       IN
       /\ frame' = [EmptyFrame EXCEPT !.op = "process_query", !.text = query,
                      !.embed_answer = LastAnswer(script, r.attempts),
                      !.embed_limited = Limited(script, r.attempts),
                      !.documents = r.documents, !.raised = r.raised,
                      !.search_results = r.documents,
                      !.query_answer = IF r.queries = 0 THEN "none"
                                       ELSE IF answer.ok /\ IndexUsable(pinecone)
                                       THEN "ok" ELSE "error",
                      !.embed_attempts = r.attempts, !.embed_sleeps = r.sleeps,
                      !.queries = r.queries]
       /\ pc' = IF r.raised THEN "ret" ELSE "pq_generate"
  /\ Unchanged
  /\ UNCHANGED <<pinecone, lastAdded>>

\* steps 2 and 3 of process_query: the context, the generation, the return
ProcessQueryGenerate ==
  /\ pc = "pq_generate"
  /\ \E script \in Scripts :
       LET context == Context(frame.search_results)
           r == generate_response(rag_service_instance, frame.text, context, script)
           result == RAGResult(r.response, frame.search_results, context)
       IN
       frame' = [frame EXCEPT !.context = context,
                   !.chat_answer = LastAnswer(script, r.attempts),
                   !.chat_limited = Limited(script, r.attempts),
                   !.response = result.response,
                   !.documents = result.relevant_documents,
                   !.context_used = result.context_used,
                   !.is_none = r.is_none, !.raised = r.raised,
                   !.prompt = IF r.attempts > 0 THEN r.prompt ELSE << >>,
                   !.chat_attempts = r.attempts, !.chat_sleeps = r.sleeps,
                   !.generate_calls = 1]
  /\ pc' = "ret"
  /\ Unchanged
  /\ UNCHANGED <<pinecone, lastAdded>>

Next ==
  \/ GetRagService
  \/ GetEmbedding
  \/ GenerateResponse
  \/ AddDocument
  \/ SearchDocuments
  \/ ProcessQuerySearch
  \/ ProcessQueryGenerate
  \/ Return

Spec == Init /\ [][Next]_vars

\* ------------------------------------------ the setup and a lagging provider
\* the calls that reach the index, on a deployment with both credentials and
\* a provider that may lag
InitSetup ==
  /\ settings = [MISTRAL_API_KEY |-> "key", PINECONE_API_KEY |-> "key"]
  /\ rag_service_instance = NoneHandle
  /\ pinecone \in InitialIndexes
  /\ pc = "idle"
  /\ frame = EmptyFrame
  /\ ctorCalls = 0
  /\ ctorFailures = 0
  /\ constructed = 0
  /\ firstHandle = NoneHandle
  /\ lastAdded = [d \in DocIds |->
                    IF \E v \in pinecone.vectors : v.id = d
                    THEN DictGet(MetadataOf(pinecone, d), "content", NoContent)
                    ELSE NoContent]
  /\ settling = "none"
  /\ lag \in BOOLEAN
  /\ AuthInit
  /\ ChatInit
  /\ http_response = NoRequest

NextSetup ==
  \/ GetRagService
  \/ AddDocument
  \/ SearchDocuments
  \/ Return
  \/ Settle

SpecSetup == InitSetup /\ [][NextSetup]_vars

\* ------------------------------- get_rag_service in concurrent request threads
\* Each request thread runs get_rag_service statement by statement; nothing
\* in the function keeps two threads from being inside it at once.
ThreadUnchanged ==
  UNCHANGED <<settings, pc, frame, lastAdded, authVars, chatVars, task_result,
              unix_time, lag, http_response>>

\* if rag_service_instance is None: ... if mistral_api_key and pinecone_api_key:
ThreadCheck(t) ==
  /\ threads[t].pc = "start"
  /\ IF rag_service_instance # NoneHandle
     THEN threads' = [threads EXCEPT ![t].pc = "return"]
     ELSE IF Truthy(settings.MISTRAL_API_KEY) /\ Truthy(settings.PINECONE_API_KEY)
     THEN threads' = [threads EXCEPT ![t].pc = "construct"]
     ELSE threads' = [threads EXCEPT ![t].pc = "assign"]
  /\ UNCHANGED <<rag_service_instance, pinecone, ctorCalls, ctorFailures,
                 constructed, firstHandle, settling>>
  /\ ThreadUnchanged

\* RAGService(), the right-hand side of the assignment
ThreadConstruct(t) ==
  /\ threads[t].pc = "construct"
  /\ \E faults \in {{}, {"Pinecone"}}
                    \cup (IF ctorFailures < MaxCtorFailures
                          THEN {{"RAGService"}} ELSE {}) :
       LET built == RAGService(pinecone, faults)
           handle == IF built.raised THEN NoneHandle
                     ELSE [id |-> constructed + 1,
                           mistral_available |-> built.mistral_available,
                           pinecone_available |-> built.pinecone_available]
       IN
       /\ threads' = [threads EXCEPT ![t].pc = "assign", ![t].built = handle]
       /\ pinecone' = built.pinecone
       /\ ctorCalls' = ctorCalls + 1
       /\ ctorFailures' = IF built.raised THEN ctorFailures + 1 ELSE ctorFailures
       /\ constructed' = IF built.raised THEN constructed ELSE constructed + 1
       /\ firstHandle' = IF ~built.raised /\ constructed = 0
                         THEN handle ELSE firstHandle
       /\ settling' = IF lag /\ Pending(built, faults) # "none"
                      THEN Pending(built, faults) ELSE settling
  /\ UNCHANGED rag_service_instance
  /\ ThreadUnchanged

\* rag_service_instance = <the handle built, or None>
ThreadAssign(t) ==
  /\ threads[t].pc = "assign"
  /\ rag_service_instance' = threads[t].built
  /\ threads' = [threads EXCEPT ![t].pc = "return"]
  /\ UNCHANGED <<pinecone, ctorCalls, ctorFailures, constructed, firstHandle,
                 settling>>
  /\ ThreadUnchanged

\* return rag_service_instance
ThreadReturn(t) ==
  /\ threads[t].pc = "return"
  /\ threads' = [threads EXCEPT ![t].pc = "done",
                                ![t].returned = rag_service_instance]
  /\ UNCHANGED <<rag_service_instance, pinecone, ctorCalls, ctorFailures,
                 constructed, firstHandle, settling>>
  /\ ThreadUnchanged

NextThreads ==
  \/ \E t \in 1..MaxThreads : ThreadCheck(t)
  \/ \E t \in 1..MaxThreads : ThreadConstruct(t)
  \/ \E t \in 1..MaxThreads : ThreadAssign(t)
  \/ \E t \in 1..MaxThreads : ThreadReturn(t)

SpecThreads == InitSetup /\ [][NextThreads]_vars

TypeOK ==
  /\ pc \in {"idle", "pq_generate", "ret"}
  /\ ctorCalls \in 0..(MaxCtorFailures + 1)
  /\ constructed \in 0..1

\* ================================================= accounts: the requests
RagInit ==
  /\ settings = [MISTRAL_API_KEY |-> NoneKey, PINECONE_API_KEY |-> NoneKey]
  /\ rag_service_instance = NoneHandle
  /\ pinecone = NoIndex
  /\ pc = "idle"
  /\ frame = EmptyFrame
  /\ ctorCalls = 0
  /\ ctorFailures = 0
  /\ constructed = 0
  /\ firstHandle = NoneHandle
  /\ settling = "none"
  /\ lag = FALSE
  /\ lastAdded = [d \in DocIds |-> NoContent]

InitAuth == RagInit /\ AuthInit /\ ChatInit /\ http_response = NoRequest

\* RegisterView.create
Register ==
  /\ \E email \in Emails, password \in Passwords, password_confirm \in Passwords :
       LET answer(status, error) ==
             [Response("register", status, error) EXCEPT !.email = email,
                                                         !.password = password]
           user == create_user(password)
           token == issued + 1
       IN
       IF password # password_confirm
       THEN /\ http_response' = answer(HTTP_400_BAD_REQUEST, PasswordsDontMatchMsg)
            /\ UNCHANGED authVars
       ELSE IF users[email].exists
       THEN /\ http_response' = answer(HTTP_400_BAD_REQUEST, EmailTakenMsg)
            /\ UNCHANGED authVars
       ELSE /\ issued < MaxTokens
            /\ users' = [users EXCEPT ![email] =
                           [user EXCEPT !.is_active = TRUE, !.is_verified = FALSE]]
            /\ email_verifications' =
                 [email_verifications EXCEPT ![email] =
                    [token |-> token, expires_at |-> now + VERIFICATION_HOURS]]
            /\ issued' = token
            /\ http_response' = [answer(HTTP_201_CREATED, "") EXCEPT !.user = email,
                                                               !.token = token]
            /\ UNCHANGED <<password_reset_tokens, now, advances>>
  /\ UNCHANGED <<ragVars, chatVars, opsVars>>

\* LoginView.post
Login ==
  /\ \E email \in Emails, password \in Passwords :
       http_response' = LoginView_post(users, email, password)
  /\ UNCHANGED authVars
  /\ UNCHANGED <<ragVars, chatVars, opsVars>>

\* VerifyEmailView.post and .get, with _verify_token
VerifyEmail ==
  /\ \E token \in Tokens :
       LET answer(status, error) ==
             [Response("verify_email", status, error) EXCEPT !.token = token]
           owner == OwnerOf(email_verifications, token)
       IN
       IF token = 0
       THEN /\ http_response' = answer(HTTP_400_BAD_REQUEST, TokenRequiredMsg)
            /\ UNCHANGED authVars
       ELSE IF owner = NoEmail
       THEN /\ http_response' = answer(HTTP_400_BAD_REQUEST, InvalidTokenMsg)
            /\ UNCHANGED authVars
       ELSE IF is_expired(email_verifications[owner], now)
       THEN /\ http_response' = [answer(HTTP_400_BAD_REQUEST, TokenExpiredMsg)
                              EXCEPT !.user = owner]
            /\ UNCHANGED authVars
       ELSE /\ users' = [users EXCEPT ![owner].is_active = TRUE,
                                      ![owner].is_verified = TRUE]
            /\ email_verifications' = [email_verifications EXCEPT ![owner] = NoToken]
            /\ http_response' = [answer(HTTP_200_OK, "") EXCEPT !.user = owner]
            /\ UNCHANGED <<password_reset_tokens, issued, now, advances>>
  /\ UNCHANGED <<ragVars, chatVars, opsVars>>

\* RequestPasswordResetView.post
RequestPasswordReset ==
  /\ \E email \in Emails :
       LET answer == [Response("request_password_reset", HTTP_200_OK, "")
                        EXCEPT !.email = email]
           token == issued + 1
       IN
       IF ~users[email].exists
       THEN /\ http_response' = answer
            /\ UNCHANGED authVars
       ELSE /\ issued < MaxTokens
            /\ password_reset_tokens' =
                 [password_reset_tokens EXCEPT ![email] =
                    [token |-> token, expires_at |-> now + RESET_HOURS]]
            /\ issued' = token
            /\ http_response' = [answer EXCEPT !.user = email, !.token = token]
            /\ UNCHANGED <<users, email_verifications, now, advances>>
  /\ UNCHANGED <<ragVars, chatVars, opsVars>>

\* ConfirmPasswordResetView.post
ConfirmPasswordReset ==
  /\ \E token \in Tokens \ {0}, password \in Passwords, password_confirm \in Passwords :
       LET answer(status, error) ==
             [Response("confirm_password_reset", status, error)
                EXCEPT !.token = token, !.password = password]
           owner == OwnerOf(password_reset_tokens, token)
       IN
       IF password # password_confirm
       THEN /\ http_response' = answer(HTTP_400_BAD_REQUEST, PasswordsDontMatchMsg)
            /\ UNCHANGED authVars
       ELSE IF owner = NoEmail
       THEN /\ http_response' = answer(HTTP_400_BAD_REQUEST, InvalidResetMsg)
            /\ UNCHANGED authVars
       ELSE IF is_expired(password_reset_tokens[owner], now)
       THEN /\ password_reset_tokens' = [password_reset_tokens EXCEPT ![owner] = NoToken]
            /\ http_response' = [answer(HTTP_400_BAD_REQUEST, InvalidResetMsg)
                              EXCEPT !.user = owner]
            /\ UNCHANGED <<users, email_verifications, issued, now, advances>>
       ELSE /\ users' = [users EXCEPT ![owner].password = password]
            /\ password_reset_tokens' = [password_reset_tokens EXCEPT ![owner] = NoToken]
            /\ http_response' = [answer(HTTP_200_OK, "") EXCEPT !.user = owner]
            /\ UNCHANGED <<email_verifications, issued, now, advances>>
  /\ UNCHANGED <<ragVars, chatVars, opsVars>>

\* cleanup_expired_verification_tokens, run by the scheduler
CleanupExpiredVerificationTokens ==
  /\ email_verifications' =
       [e \in Emails |->
          IF email_verifications[e] # NoToken /\ email_verifications[e].expires_at < now
          THEN NoToken ELSE email_verifications[e]]
  /\ http_response' = NoRequest
  /\ UNCHANGED <<users, password_reset_tokens, issued, now, advances>>
  /\ UNCHANGED <<ragVars, chatVars, opsVars>>

\* time passes between two requests
AdvanceClock ==
  /\ advances < MaxAdvances
  /\ \E d \in Durations : now' = now + d
  /\ advances' = advances + 1
  /\ http_response' = NoRequest
  /\ UNCHANGED <<users, email_verifications, password_reset_tokens, issued>>
  /\ UNCHANGED <<ragVars, chatVars, opsVars>>

NextAuth ==
  \/ Register
  \/ Login
  \/ VerifyEmail
  \/ RequestPasswordReset
  \/ ConfirmPasswordReset
  \/ CleanupExpiredVerificationTokens
  \/ AdvanceClock

SpecAuth == InitAuth /\ [][NextAuth]_vars


\* ==================================================== chat: the requests
SessionNotFoundMsg == "Chat session not found"
NotFoundMsg == "Not found."
MessageRequiredMsg == "Message is required"
EmptyContentMsg == "Message content cannot be empty"
UnavailableMsg == "I'm sorry, the AI service is currently unavailable."
DocumentsRequiredMsg == "Documents are required"
ServerErrorMsg == "Server Error (500)"
HTTP_500_INTERNAL_SERVER_ERROR == 500

\* the session ids a request can name: one more than can exist, and 0 for a
\* request without session_id
SessionIds == 0..(MaxSessions + 1)
SessionTitle == <<"chat">>

\* provider scripts of a chat request: an answer at once, an error at once, or
\* a 429 to every attempt
ChatScripts ==
  {s \in Scripts : \/ s.rate = 0 /\ s.last \in {OkOutcome, OtherException}
                   \/ s.rate = MAX_RETRIES /\ s.last = OkOutcome}

\* the constructor faults of a chat request: one call at most raises
ChatFaultSets ==
  IF rag_service_instance = NoneHandle
     /\ Truthy(settings.MISTRAL_API_KEY) /\ Truthy(settings.PINECONE_API_KEY)
  THEN {{}, {"MistralClient"}, {"Pinecone"}}
       \cup (IF ctorFailures < MaxCtorFailures THEN {{"RAGService"}} ELSE {})
  ELSE {{}}

\* the provider's possible answers to index.query on the index p
IndexAnswers(p, asked) ==
  IF asked
  THEN {[ok |-> FALSE, matches |-> << >>]}
       \cup {[ok |-> TRUE, matches |-> m] : m \in Matches(p, TopK)}
  ELSE {[ok |-> FALSE, matches |-> << >>]}

\* RAGService.process_query as one call
process_query(self, p, query, embed_script, answer, chat_script) ==
  LET found == search_documents(self, p, query, embed_script, answer.ok, answer.matches)
      context == Context(found.documents)
      made == generate_response(self, query, context, chat_script)
  IN [result |-> RAGResult(made.response, found.documents, context),
      raised |-> found.raised \/ made.raised \/ made.is_none]

\* rows of the tables
\* created_at is auto_now_add: the clock at the time the row is written
Session(id, user, title) ==
  [id |-> id, user |-> user, title |-> title, created_at |-> now]
\* a row that is always written as a message of the user
Message_as_user(session, message_type, content, metadata) ==
  [session |-> session, message_type |-> "user", content |-> content,
   metadata |-> metadata, created_at |-> now]

Message(session, message_type, content, metadata) ==
  [session |-> session, message_type |-> message_type, content |-> content,
   metadata |-> metadata, created_at |-> now]

\* f"Error generating AI response: {str(e)}"
ErrorContent == <<"Error generating AI response: ", "<exception>">>
\* the mock response ChatBotView stores when the credentials are not set
MockNoKeys(user_message) ==
  <<"This is a mock response to: ">> \o user_message
    \o <<". In production, this would use the RAG pipeline with Mistral and Pinecone.">>

\* user_message[:50] + ('...' if len(user_message) > 50 else '')
Title(user_message) ==
  IF Len(user_message) > 50 THEN SubSeq(user_message, 1, 50) \o <<"...">>
  ELSE user_message

\* a lookup that does not look at the owner of the session
OwnSession_any_owner(id, user) == \E s \in sessions : s.id = id

\* ChatSession.objects.get(id=session_id, user=request.user) finds a row
OwnSession(id, user) == \E s \in sessions : s.id = id /\ s.user = user

\* the state of the singleton and of the index after get_rag_service()
ServiceCall(r) ==
  /\ rag_service_instance' = r.instance
  /\ pinecone' = r.pinecone
  /\ ctorCalls' = IF r.called THEN ctorCalls + 1 ELSE ctorCalls
  /\ ctorFailures' = IF r.raised THEN ctorFailures + 1 ELSE ctorFailures
  /\ constructed' = IF r.called /\ ~r.raised THEN constructed + 1 ELSE constructed
  /\ firstHandle' = IF r.called /\ ~r.raised /\ constructed = 0
                    THEN r.instance ELSE firstHandle
  /\ UNCHANGED <<settings, pc, frame, lastAdded, settling>>

ChatAnswer(op, status, error, user, session_id, content) ==
  [Response(op, status, error) EXCEPT !.email = user, !.session_id = session_id,
                                      !.content = content]

\* ChatSessionListCreateView.create
CreateSession ==
  /\ last_session_id < MaxSessions
  /\ \E user \in Emails :
       /\ sessions' = sessions \cup {Session(last_session_id + 1, user, SessionTitle)}
       /\ http_response' =
            [ChatAnswer("create_session", HTTP_201_CREATED, "", user, 0, << >>)
               EXCEPT !.session = last_session_id + 1]
  /\ last_session_id' = last_session_id + 1
  /\ UNCHANGED <<messages, ragVars, authVars, opsVars>>

\* str as message content: one token
Text(s) == <<s>>

\* the scripts worth drawing for the embedding and for the generation of a
\* process_query on the handle: one when the provider is not going to be asked
EmbedScriptsFor(self) ==
  IF self.mistral_available /\ self.pinecone_available THEN ChatScripts
  ELSE {[rate |-> 0, last |-> OkOutcome]}
ChatScriptsFor(self) ==
  IF self.mistral_available THEN ChatScripts ELSE {[rate |-> 0, last |-> OkOutcome]}
AnswersFor(self, p, query, embed_script) ==
  IndexAnswers(p, self.pinecone_available
                  /\ get_embedding(self, query, embed_script).value # << >>)

\* MessageListView.create
PostMessage ==
  /\ \E user \in Emails, session_id \in SessionIds \ {0}, content \in Queries :
       LET answer(status, error) ==
             ChatAnswer("post_message", status, error, user, session_id, content)
           user_message == Message(session_id, "user", content, EmptyMeta)
       IN
       IF ~OwnSession(session_id, user)
       THEN /\ http_response' = answer(HTTP_404_NOT_FOUND, SessionNotFoundMsg)
            /\ UNCHANGED <<messages, ragVars>>
       ELSE IF content = << >>
       THEN /\ http_response' = answer(HTTP_400_BAD_REQUEST, EmptyContentMsg)
            /\ UNCHANGED <<messages, ragVars>>
       ELSE /\ Len(messages) + 2 <= MaxMessages
            /\ \E faults \in ChatFaultSets :
                 LET r == get_rag_service(rag_service_instance, settings, pinecone,
                                          faults, constructed + 1)
                     rag_service == r.instance
                 IN
                 /\ ServiceCall(r)
                 /\ IF rag_service # NoneHandle
                    THEN \E embed_script \in EmbedScriptsFor(rag_service),
                            chat_script \in ChatScriptsFor(rag_service) :
                         \E found \in AnswersFor(rag_service, r.pinecone, content,
                                                 embed_script) :
                           LET pq == process_query(rag_service, r.pinecone, content,
                                                   embed_script, found, chat_script)
                               failed == pq.raised \/ pq.result.response = NoResponse
                               ai_response_content ==
                                 IF failed THEN ErrorContent
                                 ELSE Text(pq.result.response)
                           IN messages' = messages \o
                                <<user_message,
                                  Message(session_id, "bot", ai_response_content,
                                          EmptyMeta)>>
                    ELSE messages' = messages \o
                           <<user_message,
                             Message(session_id, "bot", Text(UnavailableMsg),
                                     EmptyMeta)>>
            /\ http_response' = answer(HTTP_201_CREATED, "")
  /\ UNCHANGED <<sessions, last_session_id, authVars, opsVars>>

\* the metadata ChatBotView stores with the bot message
BotMetadata(relevant_documents, context_used) ==
  [processing_time |-> <<"<seconds>">>,
   relevant_docs_count |-> Len(relevant_documents),
   context_used |-> context_used]

\* ChatBotView.post
ChatBot ==
  /\ \E user \in Emails, session_id \in SessionIds, user_message \in Queries :
       LET answer(status, error, about) ==
             [ChatAnswer("chatbot", status, error, user, session_id, user_message)
                EXCEPT !.session = about]
           id == IF session_id # 0 THEN session_id ELSE last_session_id + 1
           user_message_obj == Message(id, "user", user_message, EmptyMeta)
           configured == Truthy(settings.MISTRAL_API_KEY)
                         /\ Truthy(settings.PINECONE_API_KEY)
       IN
       IF user_message = << >>
       THEN /\ http_response' = answer(HTTP_400_BAD_REQUEST, MessageRequiredMsg, 0)
            /\ UNCHANGED <<sessions, last_session_id, messages, ragVars>>
       ELSE IF session_id # 0 /\ ~OwnSession(session_id, user)
       THEN /\ http_response' = answer(HTTP_404_NOT_FOUND, NotFoundMsg, 0)
            /\ UNCHANGED <<sessions, last_session_id, messages, ragVars>>
       ELSE /\ Len(messages) + 2 <= MaxMessages
            /\ IF session_id # 0
               THEN UNCHANGED <<sessions, last_session_id>>
               ELSE /\ last_session_id < MaxSessions
                    /\ sessions' = sessions \cup {Session(id, user, Title(user_message))}
                    /\ last_session_id' = id
            /\ IF ~configured
               THEN /\ messages' = messages \o
                         <<user_message_obj,
                           Message(id, "bot", MockNoKeys(user_message),
                                   BotMetadata(<< >>, FALSE))>>
                    /\ http_response' = answer(HTTP_200_OK, "", id)
                    /\ UNCHANGED ragVars
               ELSE \E faults \in ChatFaultSets :
                      LET r == get_rag_service(rag_service_instance, settings,
                                               pinecone, faults, constructed + 1)
                          rag_service == r.instance
                      IN
                      /\ ServiceCall(r)
                      /\ IF rag_service = NoneHandle
                         THEN \* returns early, without a bot message
                              /\ messages' = Append(messages, user_message_obj)
                              /\ http_response' = answer(HTTP_200_OK, "", id)
                         ELSE \E embed_script \in EmbedScriptsFor(rag_service),
                                 chat_script \in ChatScriptsFor(rag_service) :
                              \E found \in AnswersFor(rag_service, r.pinecone,
                                                      user_message, embed_script) :
                                LET pq == process_query(rag_service, r.pinecone,
                                            user_message, embed_script, found,
                                            chat_script)
                                    rag_result == pq.result
                                IN
                                IF pq.raised \/ rag_result.response = NoResponse
                                THEN /\ messages' = Append(messages, user_message_obj)
                                     /\ http_response' =
                                          answer(HTTP_500_INTERNAL_SERVER_ERROR,
                                                 ServerErrorMsg, id)
                                ELSE /\ messages' = messages \o
                                          <<user_message_obj,
                                            Message(id, "bot",
                                              Text(rag_result.response),
                                              BotMetadata(rag_result.relevant_documents,
                                                          rag_result.context_used))>>
                                     /\ http_response' = answer(HTTP_200_OK, "", id)
  /\ UNCHANGED <<authVars, opsVars>>

\* the accounts of the users who send the requests: registered and verified
ChatUsers ==
  [e \in Emails |-> [create_user("pw1") EXCEPT !.is_verified = TRUE]]

\* the credentials with which the chat is deployed
ChatSettings ==
  {conf \in [MISTRAL_API_KEY : Keys, PINECONE_API_KEY : Keys] :
     conf.MISTRAL_API_KEY = "key" /\ conf.PINECONE_API_KEY \in {NoneKey, "key"}}

InitChat ==
  /\ settings \in ChatSettings
  /\ rag_service_instance = NoneHandle
  /\ pinecone \in {FreshIndex, StoredIndex}
  /\ pc = "idle"
  /\ frame = EmptyFrame
  /\ ctorCalls = 0
  /\ ctorFailures = 0
  /\ constructed = 0
  /\ firstHandle = NoneHandle
  /\ settling = "none"
  /\ lag = FALSE
  /\ lastAdded = [d \in DocIds |->
                    IF \E v \in pinecone.vectors : v.id = d
                    THEN DictGet(MetadataOf(pinecone, d), "content", NoContent)
                    ELSE NoContent]
  /\ users = ChatUsers
  /\ email_verifications = [e \in Emails |-> NoToken]
  /\ password_reset_tokens = [e \in Emails |-> NoToken]
  /\ issued = 0
  /\ now = 0
  /\ advances = 0
  /\ ChatInit
  /\ http_response = NoRequest

NextChat ==
  \/ CreateSession
  \/ PostMessage
  \/ ChatBot

SpecChat == InitChat /\ [][NextChat]_vars


\* ======================================================= the chat history
\* cleanup_old_chat_history runs from the scheduler, between the requests of
\* the chat; the clock is the one of the accounts, in hours.
\* timedelta(days=30), in hours
RETENTION == 30 * 24

\* a cleanup that takes every message for an old one
IsOld_always(row, cutoff_date) == TRUE

\* Message.objects.filter(created_at__lt=cutoff_date) selects the row
IsOld(row, cutoff_date) == row.created_at < cutoff_date

\* cleanup_old_chat_history
CleanupOldChatHistory ==
  LET cutoff_date == now - RETENTION
      old_messages == SelectSeq(messages, LAMBDA m : IsOld(m, cutoff_date))
      kept == SelectSeq(messages, LAMBDA m : ~IsOld(m, cutoff_date))
      \* ChatSession.objects.filter(messages__isnull=True), after the delete
      empty_sessions ==
        {s \in sessions : \A i \in 1..Len(kept) : kept[i].session # s.id}
  IN
  /\ messages' = kept
  /\ sessions' = sessions \ empty_sessions
  /\ task_result' = [messages_deleted |-> Len(old_messages),
                      sessions_deleted |-> Cardinality(empty_sessions)]
  /\ http_response' = NoRequest
  /\ UNCHANGED <<last_session_id, ragVars, authVars, unix_time, lag, threads>>

\* the time that passes between two requests or runs: an hour, or the whole
\* retention period
AdvanceDays ==
  /\ advances < MaxAdvances
  /\ \E d \in {1, RETENTION} : now' = now + d
  /\ advances' = advances + 1
  /\ http_response' = NoRequest
  /\ UNCHANGED <<users, email_verifications, password_reset_tokens, issued>>
  /\ UNCHANGED <<ragVars, chatVars, opsVars>>

\* a deployment without the credentials of the providers
InitHistory ==
  /\ RagInit
  /\ users = ChatUsers
  /\ email_verifications = [e \in Emails |-> NoToken]
  /\ password_reset_tokens = [e \in Emails |-> NoToken]
  /\ issued = 0
  /\ now = 0
  /\ advances = 0
  /\ ChatInit
  /\ http_response = NoRequest

NextHistory ==
  \/ CreateSession
  \/ PostMessage
  \/ ChatBot
  \/ AdvanceDays
  \/ CleanupOldChatHistory

SpecHistory == InitHistory /\ [][NextHistory]_vars


\* ===================================================== index-documents
\* doc.get('id') finds no id
NoId == ""

\* the documents of a request: with and without an id, one without a title
RequestDocuments ==
  {[id |-> NoId, title |-> <<"T">>, content |-> <<"a">>, metadata |-> EmptyMeta],
   [id |-> NoId, title |-> <<"T">>, content |-> <<"b">>, metadata |-> EmptyMeta],
   [id |-> "guide", title |-> <<"T">>, content |-> <<"a">>, metadata |-> EmptyMeta],
   [id |-> NoId, title |-> << >>, content |-> <<"a">>, metadata |-> EmptyMeta]}

\* what the providers do with one document: the embedding and the upsert
\* succeed, or the embedding is rate limited to the last attempt
DocOutcomes ==
  {[script |-> [rate |-> 0, last |-> OkOutcome], upsert_ok |-> TRUE],
   [script |-> [rate |-> MAX_RETRIES, last |-> OkOutcome], upsert_ok |-> FALSE]}

\* int(time.time()) as the n documents of a request see it, one after another
Clockings(n) ==
  {t \in [1..n -> unix_time..Min(unix_time + 1, MaxSeconds)] :
     \A i, j \in 1..n : i <= j => t[i] <= t[j]}

\* f"doc_{int(time.time())}_{indexed_count}"
GeneratedId(t, indexed_count) ==
  "doc_" \o ToString(t) \o "_" \o ToString(indexed_count)

\* the loop over the documents, from the i-th on; done: the vectors of the
\* index and the count so far
RECURSIVE IndexLoop(_, _, _, _, _, _, _)
IndexLoop(rag_service, p, documents, outcomes, times, i, done) ==
  IF i > Len(documents) THEN done
  ELSE LET doc == documents[i]
           doc_id == IF doc.id # NoId THEN doc.id
                     ELSE GeneratedId(times[i], done.indexed_count)
           r == add_document(rag_service, [p EXCEPT !.vectors = done.vectors],
                             doc_id, doc.title, doc.content, doc.metadata,
                             outcomes[i].script, outcomes[i].upsert_ok)
           called == doc.title # << >> /\ doc.content # << >>
           success == called /\ r.ok
       IN IndexLoop(rag_service, p, documents, outcomes, times, i + 1,
                    [vectors |-> IF called THEN r.vectors ELSE done.vectors,
                     indexed_count |-> done.indexed_count
                                       + (IF success THEN 1 ELSE 0)])

\* DocumentIndexView.post
IndexDocuments ==
  /\ \E documents \in UNION {[1..n -> RequestDocuments] : n \in 0..MaxDocuments} :
       LET answer(status, error, indexed_count) ==
             [Response("index_documents", status, error)
                EXCEPT !.documents = documents,
                       !.indexed_count = indexed_count]
       IN
       IF documents = << >>
       THEN /\ http_response' = answer(HTTP_400_BAD_REQUEST, DocumentsRequiredMsg, 0)
            /\ UNCHANGED <<ragVars, unix_time>>
       ELSE IF ~Truthy(settings.PINECONE_API_KEY)
       THEN \* mock indexing
            /\ http_response' = answer(HTTP_200_OK, "", Len(documents))
            /\ UNCHANGED <<ragVars, unix_time>>
       ELSE \E faults \in ChatFaultSets :
              LET r == get_rag_service(rag_service_instance, settings, pinecone,
                                       faults, constructed + 1)
                  rag_service == r.instance
              IN
              IF rag_service = NoneHandle
              THEN /\ ServiceCall(r)
                   /\ http_response' = answer(HTTP_200_OK, "", 0)
                   /\ UNCHANGED unix_time
              ELSE \E outcomes \in [1..Len(documents) -> DocOutcomes],
                      times \in Clockings(Len(documents)) :
                     LET done == IndexLoop(rag_service, r.pinecone, documents,
                                   outcomes, times, 1,
                                   [vectors |-> r.pinecone.vectors,
                                    indexed_count |-> 0])
                     IN
                     /\ ServiceCall([r EXCEPT !.pinecone.vectors = done.vectors])
                     /\ unix_time' = times[Len(documents)]
                     /\ http_response' = answer(HTTP_200_OK, "", done.indexed_count)
  /\ UNCHANGED <<authVars, chatVars, task_result, lag, threads>>

\* a second passes between two requests
Tick ==
  /\ unix_time < MaxSeconds
  /\ unix_time' = unix_time + 1
  /\ http_response' = NoRequest
  /\ UNCHANGED <<ragVars, authVars, chatVars, task_result, lag, threads>>

NextIndexing ==
  \/ IndexDocuments
  \/ Tick

SpecIndexing == InitChat /\ [][NextIndexing]_vars


\* ================================================================== claims
AtReturn(op) == pc = "ret" /\ frame.op = op

\* the generation context the claim C1 describes: the results of score above
\* 0.7 (70 hundredths), in the order of the search, one block each
RECURSIVE C1_Grounding(_)
C1_Grounding(docs) ==
  IF docs = << >> THEN << >>
  ELSE LET d == Head(docs)
           rest == C1_Grounding(Tail(docs))
           block == <<"Document: ">> \o d.title \o <<"\nContent: ">> \o d.content
       IN IF d.score <= 70 THEN rest
          ELSE IF rest = << >> THEN block
          ELSE block \o <<"\n\n">> \o rest

\* C1: process_query returns as relevant_documents the whole list that
\* search_documents returned, unfiltered and in the same order; the context
\* handed to the generation is built only from the results of score strictly
\* above 0.7, in the order of the search; and context_used is true exactly
\* when some result has a score above 0.7 (a score of exactly 0.7 is out).
C1_ContextFromRelevantOnly ==
  (AtReturn("process_query") /\ ~frame.raised) =>
     /\ frame.documents = frame.search_results
     /\ frame.context = C1_Grounding(frame.search_results)
     /\ frame.context_used =
          (\E i \in 1..Len(frame.search_results) : frame.search_results[i].score > 70)

\* a query answered with a result of score 0.7 before one of a higher score
C1_Witness ==
  /\ AtReturn("process_query")
  /\ Len(frame.documents) = 2
  /\ frame.documents[1].score = 70
  /\ frame.documents[2].score = 71
  /\ frame.context_used

\* C2: when the provider answers every attempt of one get_embedding call with
\* a 429, exactly 5 attempts are made, exactly 4 sleeps separate them, of 2,
\* 4, 8 and 16 in that order, and the call returns the empty list.
C2_RateLimitedEmbedding ==
  (AtReturn("get_embedding") /\ frame.embed_answer = "limit") =>
     /\ frame.embed_attempts = 5
     /\ frame.embed_sleeps = <<2, 4, 8, 16>>
     /\ frame.embedding = << >>
     /\ ~frame.raised
     /\ ~frame.is_none

\* a get_embedding call that met nothing but rate limits
C2_Witness ==
  /\ AtReturn("get_embedding")
  /\ frame.embed_answer = "limit"
  /\ frame.embed_attempts > 1

\* C3: whatever the query, the empty one included, and whatever fails in the
\* embedding, the index query or the generation, process_query raises nothing
\* and returns a response that is a string, a list of documents and a
\* boolean context_used.
C3_ProcessQueryNeverRaises ==
  AtReturn("process_query") =>
     /\ ~frame.raised
     /\ ~frame.is_none
     /\ frame.response \in {GeneratedAnswer, NoServiceMsg, HighDemandMsg,
                            StatusErrorMsg, OtherErrorMsg}
     /\ DOMAIN frame.documents = 1..Len(frame.documents)
     /\ frame.context_used \in BOOLEAN

\* the empty query, with the index query and then the generation failing
C3_Witness ==
  /\ AtReturn("process_query")
  /\ frame.text = << >>
  /\ frame.query_answer = "error"
  /\ frame.chat_answer = "error"


\* a generate_response, called directly or by process_query, whose last
\* attempt failed: with a 429 (the retries are exhausted), with another
\* status, or with another exception
GenerationFailed ==
  /\ pc = "ret"
  /\ frame.op \in {"generate_response", "process_query"}
  /\ frame.chat_answer \in {"limit", "status", "error"}

\* what generate_response returns when every attempt meets a 429
C4_ExhaustionApology ==
  generate_response([NoneHandle EXCEPT !.mistral_available = TRUE], << >>, << >>,
                    [rate |-> MAX_RETRIES, last |-> OkOutcome]).response

\* C4 as stated: on exhaustion of the retries or on any error that is not a
\* rate limit, generate_response returns, without raising, one and the same
\* apology string; exhaustion being one of these failures, that string is the
\* one returned on exhaustion.
C4_OneApologyForAll ==
  GenerationFailed => (~frame.raised /\ frame.response = C4_ExhaustionApology)

\* C4 as amended: on exhaustion of the retries or on any error that is not a
\* rate limit, generate_response returns, without raising, an apology string
\* fixed by the kind of failure alone: one for exhaustion, one for a status
\* error other than 429, one for any other exception.
C4_ApologyPerFailureKind ==
  GenerationFailed =>
     /\ ~frame.raised
     /\ ~frame.is_none
     /\ frame.chat_answer = "limit" =>
          (frame.response = HighDemandMsg /\ frame.chat_attempts = 5)
     /\ frame.chat_answer = "status" => frame.response = StatusErrorMsg
     /\ frame.chat_answer = "error" => frame.response = OtherErrorMsg

\* a generation that failed on a status error after rate-limited attempts
C4_Witness ==
  /\ AtReturn("generate_response")
  /\ frame.chat_answer = "status"
  /\ frame.chat_attempts > 1
  /\ frame.response = StatusErrorMsg

\* C5: process_query on a handle whose pinecone_available is false returns no
\* relevant documents and context_used false, makes no embedding call and no
\* index call for the search, and calls generate_response once, with an
\* empty context.
C5_NoIndexStillGenerates ==
  (AtReturn("process_query") /\ ~rag_service_instance.pinecone_available) =>
     /\ frame.documents = << >>
     /\ ~frame.context_used
     /\ frame.embed_attempts = 0
     /\ frame.queries = 0
     /\ frame.generate_calls = 1
     /\ frame.context = << >>

\* a process_query without index whose generation reached the provider
C5_Witness ==
  /\ AtReturn("process_query")
  /\ ~rag_service_instance.pinecone_available
  /\ rag_service_instance.mistral_available
  /\ frame.chat_attempts > 0

CredentialsPresent ==
  /\ settings.MISTRAL_API_KEY \notin {NoneKey, ""}
  /\ settings.PINECONE_API_KEY \notin {NoneKey, ""}

\* C6: while a credential is missing or empty, every get_rag_service call
\* returns None, RAGService is never constructed, and no call reaches a
\* provider: no handle operation runs and the index is as it was.
C6_NoCredentialsNoService ==
  ~CredentialsPresent =>
     /\ rag_service_instance = NoneHandle
     /\ ctorCalls = 0
     /\ constructed = 0
     /\ frame.op \in {"none", "get_rag_service"}
     /\ frame.handle = NoneHandle
     /\ ~frame.ctor_called
     /\ pinecone \in InitialIndexes

\* a get_rag_service call made with an empty Mistral key
C6_Witness ==
  /\ AtReturn("get_rag_service")
  /\ settings.MISTRAL_API_KEY = ""
  /\ settings.PINECONE_API_KEY = "key"

\* C7: RAGService is constructed at most once, and once it is constructed the
\* singleton is that handle and every get_rag_service call returns it, also
\* when the handle was built with an availability flag false.
C7_SingleHandle ==
  /\ constructed <= 1
  /\ constructed >= 1 =>
       /\ firstHandle # NoneHandle
       /\ rag_service_instance = firstHandle
       /\ AtReturn("get_rag_service") => frame.handle = firstHandle

\* a later call that returns the cached handle, built with both flags false
C7_Witness ==
  /\ AtReturn("get_rag_service")
  /\ ~frame.ctor_called
  /\ frame.handle # NoneHandle
  /\ ~frame.handle.mistral_available
  /\ ~frame.handle.pinecone_available

\* C8 as stated: once a construction has failed with an exception, no later
\* step attempts a construction and the singleton stays unavailable.
C8_FailurePermanent ==
  [][ctorFailures >= 1 =>
       (ctorCalls' = ctorCalls /\ rag_service_instance' = NoneHandle)]_vars

\* C9: each availability flag is set by the initialisation of its own client,
\* and every operation short-circuits on its flag: without Mistral,
\* get_embedding returns [] and generate_response its fallback string, and no
\* call reaches the Mistral client; without Pinecone, add_document returns
\* False and search_documents returns [], and neither the index nor the
\* embedding provider is called.
C9_FlagsShortCircuit ==
  /\ (AtReturn("get_rag_service") /\ frame.ctor_called /\ ~frame.ctor_raised) =>
       /\ frame.handle.mistral_available = ("MistralClient" \notin frame.faults)
       /\ frame.handle.pinecone_available =>
            frame.faults \cap {"Pinecone", "list_indexes", "Index"} = {}
  /\ (pc = "ret" /\ frame.op \notin {"none", "get_rag_service"}
        /\ ~rag_service_instance.mistral_available) =>
       /\ frame.embed_attempts = 0
       /\ frame.chat_attempts = 0
       /\ frame.embedding = << >>
       /\ frame.op \in {"generate_response", "process_query"} =>
            frame.response = NoServiceMsg
  /\ (pc = "ret" /\ frame.op \in {"add_document", "search_documents"}
        /\ ~rag_service_instance.pinecone_available) =>
       /\ ~frame.ok
       /\ frame.documents = << >>
       /\ frame.upserts = 0
       /\ frame.queries = 0
       /\ frame.embed_attempts = 0

\* a get_embedding on a handle without Mistral but with Pinecone
C9_Witness ==
  /\ AtReturn("get_embedding")
  /\ ~rag_service_instance.mistral_available
  /\ rag_service_instance.pinecone_available

\* C10: the index holds exactly one entry for every doc_id that was added
\* successfully, carrying the content of the last successful add of that
\* doc_id, and no entry for a doc_id that never was.
C10_UpsertKeepsLatest ==
  \A d \in DocIds :
    LET entries == {v \in pinecone.vectors : v.id = d} IN
    IF lastAdded[d] = NoContent
    THEN entries = {}
    ELSE /\ Cardinality(entries) = 1
         /\ \A v \in entries : v.metadata["content"] = lastAdded[d]

\* a successful add over a doc_id stored with another content
C10_Witness ==
  /\ AtReturn("add_document")
  /\ frame.ok
  /\ frame.previous \notin {NoContent, frame.text}

\* ---------------------------------------------------------------------
\* the step in which the call `op` runs from its start to its return
Runs(op) == pc = "idle" /\ pc' = "ret" /\ frame'.op = op

\* C11: when get_embedding gives add_document an empty embedding (the
\* provider never answered with a vector, or no attempt was made at all),
\* add_document returns False, issues no upsert, leaves the index as it was
\* and makes no attempt beyond those of the one get_embedding call
C11_EmptyEmbeddingNoUpsert ==
  [][(Runs("add_document") /\ frame'.embed_answer # "ok")
       => /\ ~frame'.ok
          /\ ~frame'.raised
          /\ frame'.upserts = 0
          /\ pinecone' = pinecone
          /\ frame'.embed_attempts <= MAX_RETRIES
          /\ frame'.embed_attempts <= frame'.embed_limited + 1
          /\ Len(frame'.embed_sleeps) <= frame'.embed_limited]_vars

\* an add_document on a handle with both services whose embedding failed
\* while the index holds a vector
C11_Witness ==
  /\ AtReturn("add_document")
  /\ rag_service_instance.pinecone_available
  /\ frame.embed_answer \in {"limit", "status", "error"}
  /\ pinecone.vectors # {}

\* ---------------------------------------------------------------------
\* RAGService() was called in this get_rag_service and returned a handle
Constructed == AtReturn("get_rag_service") /\ frame.ctor_called /\ ~frame.ctor_raised

\* C12: if the index existed with a dimension other than 1024 when the
\* construction began, then once the construction has completed the index
\* has dimension 1024 and holds none of the vectors it held before
C12_WrongDimensionReplaced ==
  (Constructed /\ frame.index_before.exists
               /\ frame.index_before.dimension # EmbeddingDim)
    => /\ pinecone.exists
       /\ pinecone.dimension = EmbeddingDim
       /\ pinecone.vectors \cap frame.index_before.vectors = {}

\* ---------------------------------------------------------------------
\* the index setup ran to its end in the construction just completed
SetupCompleted ==
  /\ Constructed
  /\ "Pinecone" \notin frame.faults
  /\ ~IndexSetup(frame.index_before, frame.faults).raised

\* C13: the index setup is idempotent: a construction that finds the index
\* with dimension 1024 issues no create_index and no delete_index and leaves
\* the stored vectors as they were, and a second run of the setup right
\* after a first one leaves the index exactly as the first run left it
C13_SetupIdempotent ==
  /\ (Constructed /\ IndexUsable(frame.index_before))
       => /\ frame.creates = 0
          /\ frame.deletes = 0
          /\ pinecone = frame.index_before
  /\ SetupCompleted
       => \A again \in SUBSET CtorCalls :
            IndexSetup(pinecone, again).pinecone = pinecone

\* ---------------------------------------------------------------------
\* C14: when an attempt of get_embedding fails with an error that is not a
\* rate limit, after k < 5 rate-limited attempts, the call returns [] at
\* once: that attempt is the last one (k + 1 attempts), nothing is slept
\* beyond the k sleeps of the rate limits, and no exception leaves the call
C14_ErrorEndsEmbedding ==
  (AtReturn("get_embedding") /\ frame.embed_answer \in {"status", "error"})
    => /\ frame.embedding = << >>
       /\ ~frame.is_none
       /\ ~frame.raised
       /\ frame.embed_limited < MAX_RETRIES
       /\ frame.embed_attempts = frame.embed_limited + 1
       /\ Len(frame.embed_sleeps) = frame.embed_limited

\* a provider error that is not a rate limit, met after two rate limits
C14_Witness ==
  /\ AtReturn("get_embedding")
  /\ frame.embed_answer = "status"
  /\ frame.embed_limited = 2
  /\ frame.embed_attempts = 3

\* ---------------------------------------------------------------------
\* the sentences of the two messages that tell the model to answer from the
\* supplied context
GroundingInstructions ==
  {"Use the provided context to answer questions accurately.",
   "\n\nPlease provide a helpful and accurate response based on the given context."}

InstructsGrounding(system, user) ==
  \/ \E i \in 1..Len(system) : system[i] \in GroundingInstructions
  \/ \E i \in 1..Len(user) : user[i] \in GroundingInstructions

\* C15: generate_response chooses its prompt by whether the context is
\* empty: the prompt sent to the model tells it to ground the answer in the
\* supplied context when the context is non-empty, and does not (it asks
\* for a general answer) when the context is empty
C15_PromptByContext ==
  (/\ pc = "ret"
   /\ frame.op \in {"generate_response", "process_query"}
   /\ frame.chat_attempts > 0)
    => (InstructsGrounding(SystemMessage, frame.prompt) <=> frame.context # << >>)

\* ---------------------------------------------------------------------
\* the keys add_document sets itself
OwnKeys == {"title", "content", "doc_id"}

\* C16: the triple an add_document has upserted carries a metadata whose
\* title, content and doc_id are the arguments of the call, also when the
\* caller's metadata had such keys, and which keeps every other key of the
\* caller's metadata with its value, and has no further key
C16_MetadataOfTriple ==
  (AtReturn("add_document") /\ frame.ok)
    => /\ \E v \in pinecone.vectors : v.id = frame.doc_id
       /\ LET md == MetadataOf(pinecone, frame.doc_id) IN
          /\ DOMAIN md = DOMAIN frame.metadata \cup OwnKeys
          /\ md["title"] = frame.title
          /\ md["content"] = frame.text
          /\ md["doc_id"] = frame.doc_id
          /\ \A k \in DOMAIN frame.metadata \ OwnKeys : md[k] = frame.metadata[k]

\* a document added with a metadata that has a title of its own, other than
\* the title argument, and one more key
C16_Witness ==
  /\ AtReturn("add_document")
  /\ frame.ok
  /\ "title" \in DOMAIN frame.metadata
  /\ frame.metadata["title"] # frame.title
  /\ DOMAIN frame.metadata \ OwnKeys # {}

\* ---------------------------------------------------------------------
\* what a call with a retry budget of its own shows: all MAX_RETRIES attempts
\* when every answer was a 429, else one attempt after the 429s, and the
\* delays BASE_DELAY, 2 BASE_DELAY, 4 BASE_DELAY, ... from the start
OwnBudget(answer, attempts, limited, sleeps) ==
  /\ answer = "limit" => attempts = MAX_RETRIES
  /\ answer \in {"ok", "status", "error"} => attempts = limited + 1
  /\ Len(sleeps) = Min(limited, MAX_RETRIES - 1)
  /\ \A i \in 1..Len(sleeps) : sleeps[i] = BASE_DELAY * 2^(i - 1)

C17_BudgetPerCall ==
  pc = "ret" =>
    /\ frame.embed_attempts > 0
         => OwnBudget(frame.embed_answer, frame.embed_attempts,
                      frame.embed_limited, frame.embed_sleeps)
    /\ (frame.generate_calls = 1 /\ rag_service_instance.mistral_available)
         => /\ frame.chat_attempts > 0
            /\ OwnBudget(frame.chat_answer, frame.chat_attempts,
                         frame.chat_limited, frame.chat_sleeps)

C17_HandleKept ==
  rag_service_instance # NoneHandle => rag_service_instance' = rag_service_instance

\* C17: once the handle is built no request writes shared state: every step
\* leaves the singleton and the fields of the handle as they are, and the
\* retry counter and the delay are per call, so that each embedding and
\* each generation, that of a process_query after a rate-limited search
\* included, has the whole budget of MAX_RETRIES attempts and starts its
\* delays at BASE_DELAY
C17_NoSharedState == [](C17_BudgetPerCall) /\ [][C17_HandleKept]_vars

\* a process_query whose search was rate limited three times and whose
\* generation then used its whole budget of its own
C17_Witness ==
  /\ AtReturn("process_query")
  /\ frame.embed_limited = 3
  /\ frame.chat_answer = "limit"
  /\ frame.chat_attempts = MAX_RETRIES

\* ---------------------------------------------------------------------
\* the last request was a login
LoggedIn == http_response.op = "login"

C19_InactiveUntilVerified ==
  /\ (http_response.op = "register" /\ http_response.status = HTTP_201_CREATED)
       => /\ ~users[http_response.user].is_active
          /\ ~users[http_response.user].is_verified
  /\ \A e \in Emails :
       (users[e].exists /\ ~users[e].is_verified) => ~users[e].is_active
  /\ (http_response.op = "verify_email" /\ http_response.status = HTTP_200_OK)
       => /\ users[http_response.user].is_active
          /\ users[http_response.user].is_verified

\* ---------------------------------------------------------------------
\* the request answered in this step posts a message to a session id that
\* names no session of the user who sends it
PostsToForeignSession ==
  /\ http_response'.op \in {"post_message", "chatbot"}
  /\ http_response'.session_id # 0
  /\ http_response'.content # << >>
  /\ ~\E s \in sessions : /\ s.id = http_response'.session_id
                          /\ s.user = http_response'.email

\* C20: a POST of a message to a session id that does not exist or is the
\* id of another user's session is answered 404 and creates no message, of
\* the user or of the bot, in any session (and no session), on
\* /api/chat/sessions/{id}/messages/ as on /api/rag/chat/ with a session_id
C20_ForeignSessionNotFound ==
  [][PostsToForeignSession
       => /\ http_response'.status = HTTP_404_NOT_FOUND
          /\ messages' = messages
          /\ sessions' = sessions]_vars

\* a message sent to /api/rag/chat/ with the id of another user's session,
\* while the table of messages is not empty
C20_Witness ==
  /\ http_response.op = "chatbot"
  /\ http_response.status = HTTP_404_NOT_FOUND
  /\ \E s \in sessions : /\ s.id = http_response.session_id
                         /\ s.user # http_response.email
  /\ messages # << >>

\* the row was created less than 30 days before the clock now shows
Recent(row) == row.created_at > now - RETENTION
\* the row was created more than 30 days before the clock now shows
Outdated(row) == row.created_at < now - RETENTION
MessagesOf(rows, id) == SelectSeq(rows, LAMBDA m : m.session = id)

\* C21: a run of cleanup_old_chat_history leaves no message created more than
\* 30 days before the run, keeps every message created less than 30 days
\* before the run, in its place, and returns as messages_deleted the number of
\* messages it removed.
C21_CleanupRemovesOldOnly ==
  [][CleanupOldChatHistory =>
       /\ \A i \in 1..Len(messages') : ~Outdated(messages'[i])
       /\ SelectSeq(messages', Recent) = SelectSeq(messages, Recent)
       /\ task_result'.messages_deleted = Len(messages) - Len(messages')]_vars

\* a run has removed old messages from a table that also held recent ones
C21_Witness ==
  /\ task_result.messages_deleted > 0
  /\ Len(messages) > 0
  /\ \A i \in 1..Len(messages) : Recent(messages[i])

\* C29: a session created less than 30 days before a run of
\* cleanup_old_chat_history that has no messages yet is still present after
\* the run.
C29_FreshEmptySessionKept ==
  [][CleanupOldChatHistory =>
       \A s \in sessions :
         Recent(s) /\ MessagesOf(messages, s.id) = << >> => s \in sessions']_vars

\* the request is a list of documents that each have a title and a content
AllComplete(documents) ==
  /\ documents # << >>
  /\ \A i \in 1..Len(documents) :
       documents[i].title # << >> /\ documents[i].content # << >>

\* C22: when index-documents answers 200 for a list of documents that each
\* have a non-empty title and content, indexed_count is the number of
\* documents submitted.
C22_AllSubmittedCounted ==
  http_response.op = "index_documents" /\ http_response.status = HTTP_200_OK
    /\ AllComplete(http_response.documents)
  => http_response.indexed_count = Len(http_response.documents)

\* the vector was stored under an id the view generated
Generated(v) == v.id \notin DocIds \cup {"guide", LegacyVector.id}

\* C28: a document indexed under a generated doc_id is not overwritten by a
\* later document submitted without an id: no two id-less documents get the
\* same generated doc_id.
C28_GeneratedIdsDistinct ==
  [][IndexDocuments =>
       \A v \in pinecone.vectors : Generated(v) => v \in pinecone'.vectors]_vars

\* the delays of the claim C23, in the order in which they are slept
RetryDelays == <<2, 4, 8, 16>>

\* the attempts and the sleeps are those of the retry machine of the claim
\* C23, run against the script: a new attempt follows a 429 only
RetryMachine(script, attempts, sleeps) ==
  /\ attempts \in 1..MAX_RETRIES
  /\ \A k \in 1..(attempts - 1) : OutcomeAt(script, k) = RateLimitAt(k)
  /\ sleeps = SubSeq(RetryDelays, 1, attempts - 1)

\* C23: for every sequence of provider outcomes, generate_response and
\* get_embedding on the handle that get_rag_service returns make the same
\* number of attempts and the same sleeps in the same order: at most 5
\* attempts, a new attempt after a rate limit only, delays 2, 4, 8, 16; so do
\* the two calls of one process_query whose providers answered alike.
C23_SameRetryMachine ==
  /\ AtReturn("get_rag_service") /\ rag_service_instance # NoneHandle =>
       \A script \in Scripts, text \in Queries :
         LET e == get_embedding(rag_service_instance, text, script)
             g == generate_response(rag_service_instance, text, << >>, script)
         IN
         /\ e.attempts = g.attempts
         /\ e.sleeps = g.sleeps
         /\ rag_service_instance.mistral_available
              => RetryMachine(script, g.attempts, g.sleeps)
  /\ pc = "ret" /\ frame.embed_attempts > 0 /\ frame.chat_attempts > 0
       /\ frame.embed_limited = frame.chat_limited
       /\ frame.embed_answer = frame.chat_answer
     => /\ frame.embed_attempts = frame.chat_attempts
        /\ frame.embed_sleeps = frame.chat_sleeps

\* one process_query in which both providers answered 429 four times and then
\* succeeded
C23_Witness ==
  /\ AtReturn("process_query")
  /\ frame.embed_limited = 4 /\ frame.chat_limited = 4
  /\ frame.embed_answer = "ok" /\ frame.chat_answer = "ok"
  /\ frame.chat_attempts = MAX_RETRIES
  /\ frame.chat_sleeps = RetryDelays

\* the step issues an upsert or a query through the handle
IssuesIndexCall ==
  frame'.upserts > frame.upserts \/ frame'.queries > frame.queries

\* C24: after a construction that deleted and recreated the index because of
\* a dimension mismatch, no upsert and no query is issued through the handle
\* while the provider has not completed the deletion and the creation.
C24_NoCallBeforeSettled ==
  [][IssuesIndexCall => settling # "recreate"]_vars

\* C25: when request threads call get_rag_service concurrently while no
\* handle exists and both credentials are present, and no construction
\* raises, RAGService is constructed at most once and the threads that have
\* returned hold the same handle.
C25_ConstructedOnce ==
  ctorFailures = 0 =>
    /\ ctorCalls <= 1
    /\ \A t, u \in 1..MaxThreads :
         threads[t].pc = "done" /\ threads[u].pc = "done"
           => threads[t].returned = threads[u].returned

\* C26: whenever a construction leaves pinecone_available true, the index
\* exists with dimension 1024, whichever calls of the dimension check raised.
C26_AvailableMeansUsable ==
  Constructed /\ rag_service_instance.pinecone_available
    => pinecone.exists /\ pinecone.dimension = EmbeddingDim

\* the messages the step has added to the table
Added == SubSeq(messages', Len(messages) + 1, Len(messages'))

\* C27: a POST to /api/chat/sessions/{id}/messages/ answered 201 adds to that
\* session exactly one user message followed by exactly one bot message and
\* touches no other row, whichever branch produced the bot message; one
\* answered 400 or 404 adds no message.
C27_OneExchangePerPost ==
  [][http_response'.op = "post_message" =>
       /\ http_response'.status
            \in {HTTP_201_CREATED, HTTP_400_BAD_REQUEST, HTTP_404_NOT_FOUND}
       /\ SubSeq(messages', 1, Len(messages)) = messages
       /\ sessions' = sessions
       /\ IF http_response'.status = HTTP_201_CREATED
          THEN /\ Len(Added) = 2
               /\ Added[1].message_type = "user"
               /\ Added[1].content = http_response'.content
               /\ Added[2].message_type = "bot"
               /\ Added[1].session = http_response'.session_id
               /\ Added[2].session = http_response'.session_id
          ELSE Added = << >>]_vars

\* two posts answered 201: the first while the service could not be built,
\* the second answered by the service
C27_Witness ==
  /\ http_response.op = "post_message"
  /\ http_response.status = HTTP_201_CREATED
  /\ Len(messages) = 4
  /\ messages[2].content = Text(UnavailableMsg)
  /\ messages[4].content = Text(GeneratedAnswer)

\* the tokens stored in the table
TokensIn(table) == {table[e].token : e \in {u \in Emails : table[u] # NoToken}}

\* the token is stored in the table and its time has not run out
Redeemable(table, token) ==
  \E e \in Emails : /\ table[e] # NoToken
                     /\ table[e].token = token
                     /\ now <= table[e].expires_at

\* what the claim C30 says of one table of tokens and the request that redeems
\* from it: a token that is not stored or has run out is answered 400 and
\* leaves the users alone, a token answered 200 is gone afterwards, and a token
\* that has left the table never comes back
SingleUse(op, table, table_after) ==
  /\ http_response'.op = op =>
       LET token == http_response'.token IN
       /\ ~Redeemable(table, token)
            => http_response'.status = HTTP_400_BAD_REQUEST /\ users' = users
       /\ http_response'.status = HTTP_200_OK => token \notin TokensIn(table_after)
  /\ \A t \in 1..issued : t \notin TokensIn(table) => t \notin TokensIn(table_after)
  /\ \A e, u \in Emails :
       e # u /\ table_after[e] # NoToken /\ table_after[u] # NoToken
         => table_after[e].token # table_after[u].token

\* C30: email-verification and password-reset tokens are single-use and each
\* user has one of each at most: a token that has been redeemed, or a
\* password-reset token replaced by a newer one of the same user, is answered
\* 400 and changes neither is_verified nor the password; so is an expired one.
C30_TokensSingleUse ==
  [][/\ SingleUse("verify_email", email_verifications, email_verifications')
     /\ SingleUse("confirm_password_reset", password_reset_tokens,
                  password_reset_tokens')
     /\ \* a newer password-reset token replaces the older one of the user
        http_response'.op = "request_password_reset"
          /\ http_response'.user # NoEmail
          /\ password_reset_tokens[http_response'.user] # NoToken
        => password_reset_tokens[http_response'.user].token
             \notin TokensIn(password_reset_tokens')]_vars

\* one user only; the password-reset token 2 was replaced by the token 3 and
\* then presented
C30_Witness ==
  /\ issued = 3
  /\ \E e \in Emails :
       /\ \A u \in Emails \ {e} : ~users[u].exists
       /\ password_reset_tokens[e] # NoToken
       /\ password_reset_tokens[e].token = 3
       /\ now <= password_reset_tokens[e].expires_at
  /\ http_response.op = "confirm_password_reset"
  /\ http_response.token = 2
  /\ http_response.status = HTTP_400_BAD_REQUEST
  /\ http_response.error = InvalidResetMsg

====
